---------------------------- MODULE Spec2Model ----------------------------
(***************************************************************************)
(* Index selection and SARG (search argument) planner of the query engine. *)
(*                                                                         *)
(* The module models                                                       *)
(*   - the span builder SargFor with its per-key visitors (planner),       *)
(*   - the span intersection constrainSpans / constrainSpan (sargAnd),     *)
(*   - the index selector: sargableIndexes and minimalIndexes,             *)
(*   - selectScan: candidate enumeration, scan tree, primary fallback.     *)
(*                                                                         *)
(* The specifications share the module, one per component:                 *)
(*   SpecSarg       one call of SargFor, one loop iteration per step       *)
(*   SpecConstrain  one call of constrainSpan on two single-key spans      *)
(*   SpecSelect     sargableIndexes followed by minimalIndexes             *)
(*   SpecPlan       one call of selectScan                                 *)
(*   SpecConn       the error path of one IndexConnection                  *)
(*   SpecScan       one Scan or ScanEntries call and its consumer          *)
(*   SpecScanLive   SpecScan with the scan goroutine scheduled fairly      *)
(*   SpecJson       a scan node marshalled and unmarshalled                *)
(*   SpecFile       two concurrent write batches on one file keyspace      *)
(*   SpecPool       Collect operators sharing the slice pool               *)
(***************************************************************************)
EXTENDS Integers, Sequences, FiniteSets, TLC

VARIABLES
    \* ---- SargFor (one call) ----
    pred,         \* the predicate being sarged
    sargKeys,     \* the sargable key prefix handed to SargFor
    total,        \* number of keys of the index
    i,            \* loop index of SargFor (1-based; the code counts from 0)
    ns,           \* spans accumulated from the keys to the right
    missingHigh,  \* the visitor's missing-high flag
    rs,           \* spans of the key visited last (local of the loop body)
    nsPrev,       \* ns as it was when the last iteration began
    path,         \* branch the last iteration took
    pc,           \* position in SargFor
    result,       \* value returned by SargFor
    \* ---- constrainSpan (one call) ----
    span1,        \* first argument, modified in place
    span2,        \* second argument
    span1In,      \* span1 as passed in
    cpc,          \* position in constrainSpan
    \* ---- index selection ----
    where,        \* the WHERE predicate, normalised
    indexes,      \* the candidate indexes of the keyspace
    todo,         \* indexes sargableIndexes has not reached yet
    sargables,    \* map index -> indexEntry
    visited,      \* entries the outer loop of minimalIndexes has produced
    minimals,     \* map index -> indexEntry returned by minimalIndexes
    merr,         \* error returned by minimalIndexes
    spc,          \* position in the selector
    \* ---- selectScan (one call) ----
    nodeKeys,     \* node.Keys(): the USE KEYS expression
    hints,        \* node.Indexes(): the USE INDEX hints
    catalog,      \* the indexes of the keyspace, indexer by indexer
    cover,        \* this.cover: the expressions a covering index must hold
    fail,         \* the catalog or planner call that fails in this run
    hintIndexes,  \* local of buildScan
    otherIndexes, \* local of buildScan
    maxParallelism, \* this.maxParallelism
    lookups,      \* the lookups the call has made so far
    scanOp,       \* the operator selectScan returns
    err,          \* the error selectScan returns
    ppc,          \* position in selectScan
    \* ---- IndexConnection ----
    connPrimary,  \* this.primary
    connTimeout,  \* this.timeout
    ctxErrors,    \* codes of the errors context.Error has received
    ctxOthers,    \* codes context.Fatal and context.Warning have received
    connCalls,    \* the calls made on the connection so far
    \* ---- one Scan or ScanEntries call and its consumer ----
    scanImpl,     \* the implementation that runs
    scanInput,    \* the keyspace, the span and the limit of the call
    connSize,     \* capacity of the entry channel
    entryChannel, \* entries sent and not yet received
    chanClosed,   \* the entry channel is closed
    stopChannel,  \* signals written to the stop channel and not read
    toSend,       \* keys the scan loop has still to send
    received,     \* keys the consumer has received
    scpc,         \* position of the scan: "start", "loop", "done"
    rpc,          \* position of the consumer: "reading", "stopped", "done"
    \* ---- MarshalJSON / UnmarshalJSON of a scan node ----
    planNode,     \* the node that is marshalled
    store,        \* the catalog the unmarshalling resolves against
    body,         \* the marshalled JSON
    decoded,      \* the node and the error of UnmarshalJSON
    jpc,          \* "start", "marshalled", "done"
    \* ---- file keyspace: concurrent Insert / Update / Upsert batches ----
    files,        \* the directory of the keyspace: key -> bytes of the document
    ioFails,      \* keys whose file cannot be created or opened for writing
    fileLock,     \* b.fileLock: the caller that holds it, if any
    fileOp,       \* per caller: INSERT, UPDATE or UPSERT
    kvPairs,      \* per caller: the batch
    fpos,         \* per caller: index of the pair the loop is at
    statErr,      \* per caller: os.Stat of the pair's file failed
    insertedKeys, \* per caller: local of performOp
    returnErr,    \* per caller: local of performOp, the number of chained errors
    filesAtLock,  \* per caller: the directory when the caller took the lock
    fpc,          \* per caller: position in performOp
    \* ---- InterfacePool and the Collect operators ----
    arrays,       \* backing arrays: id -> contents, as long as the capacity
    pooled,       \* the slices the sync.Pool holds, by backing array
    values,       \* per Collect: this.values
    returned,     \* per Collect: the value ValuesOnce returned, while in use
    lastGet       \* the slice the last Get returned

sargVars == <<pred, sargKeys, total, i, ns, missingHigh, rs, nsPrev, path, pc, result>>
conVars == <<span1, span2, span1In, cpc>>
selVars == <<where, indexes, todo, sargables, visited, minimals, merr, spc>>
planVars == <<nodeKeys, hints, catalog, cover, fail, hintIndexes, otherIndexes,
              maxParallelism, lookups, scanOp, err, ppc>>
connVars == <<connPrimary, connTimeout, ctxErrors, ctxOthers, connCalls>>
scanVars == <<scanImpl, scanInput, connSize, entryChannel, chanClosed, stopChannel,
              toSend, received, scpc, rpc>>
jsonVars == <<planNode, store, body, decoded, jpc>>
fileVars == <<files, ioFails, fileLock, fileOp, kvPairs, fpos, statErr, insertedKeys,
              returnErr, filesAtLock, fpc>>
poolVars == <<arrays, pooled, values, returned, lastGet>>
tailVars == <<fileVars, poolVars>>
lateVars == <<connVars, scanVars, jsonVars, tailVars>>
restVars == <<planVars, lateVars>>
vars == <<sargVars, conVars, selVars, restVars>>

-----------------------------------------------------------------------------
(* Bounds of the model *)

\* constants that occur in predicates are 1..MaxVal
MaxVal == 2
\* number of keys of the index handed to SargFor
MaxKeys == 3
\* at most this many indexes in the catalog of one selection
MaxIndexes == 3
\* at most this many calls on one IndexConnection
MaxCalls == 4
\* at most this many items in a scanned keyspace, directory or store
MaxItems == 4
\* the entry channel of a sized connection holds at most this many entries
MaxCap == 2
\* a marshalled UnionScan or IntersectScan has at most this many child scans
MaxScans == 2
\* a batch handed to Insert, Update or Upsert has at most this many pairs
MaxBatch == 2
\* capacity of the slices of the Collect pool (_COLLECT_CAP, scaled down)
CollectCap == 2
\* at most this many backing arrays are allocated in one run
MaxArrays == 3

-----------------------------------------------------------------------------
(* Values: MISSING < NULL < every other value; Collate is the total order *)

NULL_VALUE == 0

Collate(v1, v2) == IF v1 < v2 THEN -1 ELSE IF v1 > v2 THEN 1 ELSE 0

\* Value() of a bound that is not a constant
Nil == -1

(* datastore.Inclusion *)
NEITHER == 0
LOW == 1
HIGH == 2
BOTH == 3

\* bitwise and / or on the two inclusion bits
BitAnd(x, y) == ((x % 2) * (y % 2)) + 2 * ((x \div 2) * (y \div 2))
BitOr(x, y) == (IF (x % 2) + (y % 2) > 0 THEN 1 ELSE 0)
                 + 2 * (IF (x \div 2) + (y \div 2) > 0 THEN 1 ELSE 0)

-----------------------------------------------------------------------------
(* Expressions *)

FieldNames == <<"a", "b", "c", "d", "e", "f">>
Fields == SubSeq(FieldNames, 1, MaxKeys)

Field(f) == [kind |-> "field", fld |-> f, lo |-> 0, hi |-> 0, ops |-> <<>>]
Cmp(op, f, c) == [kind |-> op, fld |-> f, lo |-> c, hi |-> c, ops |-> <<>>]
Between(f, l, h) == [kind |-> "between", fld |-> f, lo |-> l, hi |-> h, ops |-> <<>>]
\* f IN [1, 2, ..., n]
In(f, n) == [kind |-> "in", fld |-> f, lo |-> 1, hi |-> n, ops |-> <<>>]
IsNull(f) == [kind |-> "isnull", fld |-> f, lo |-> 0, hi |-> 0, ops |-> <<>>]
IsNotNull(f) == [kind |-> "isnotnull", fld |-> f, lo |-> 0, hi |-> 0, ops |-> <<>>]
And(operands) == [kind |-> "and", fld |-> "", lo |-> 0, hi |-> 0, ops |-> operands]

\* pred.Operand(), pred.First() of a comparison whose other side is a constant
Operand(p) == Field(p.fld)

EquivalentTo(e1, e2) == e1 = e2

\* an absent expression: the nil condition of an index that is not partial
NoCond == [kind |-> "nil", fld |-> "", lo |-> 0, hi |-> 0, ops |-> <<>>]

\* a is sufficient for b (false negatives allowed): the same expression, a
\* conjunct of a, or a range on the same field that lies inside b's range
RangeKinds == {"eq", "lt", "le", "gt", "ge", "between"}
HasLower(p) == p.kind \in {"eq", "gt", "ge", "between"}
HasUpper(p) == p.kind \in {"eq", "lt", "le", "between"}
LowerInside(p1, p2) ==
    \/ ~HasLower(p2)
    \/ /\ HasLower(p1)
       /\ \/ p1.lo > p2.lo
          \/ p1.lo = p2.lo /\ (p1.kind = "gt" \/ p2.kind # "gt")
UpperInside(p1, p2) ==
    \/ ~HasUpper(p2)
    \/ /\ HasUpper(p1)
       /\ \/ p1.hi < p2.hi
          \/ p1.hi = p2.hi /\ (p1.kind = "lt" \/ p2.kind # "lt")

RECURSIVE SubsetOf(_, _)
SubsetOf(e1, e2) ==
    \/ e1 = e2
    \/ /\ e1.kind = "and"
       /\ \E k \in 1..Len(e1.ops) : SubsetOf(e1.ops[k], e2)
    \/ /\ e1.kind \in RangeKinds
       /\ e2.kind \in RangeKinds
       /\ e1.fld = e2.fld
       /\ LowerInside(e1, e2)
       /\ UpperInside(e1, e2)

-----------------------------------------------------------------------------
(* Spans.  tag tells the shared span objects apart from spans built afresh: *)
(* the code recognises _FULL_SPANS[0] by pointer.                           *)

Span(l, h, inc) == [low |-> l, high |-> h, incl |-> inc, tag |-> ""]

FULL_SPAN == [low |-> <<>>, high |-> <<>>, incl |-> BOTH, tag |-> "full"]
SELF_SPAN == [low |-> <<>>, high |-> <<>>, incl |-> BOTH, tag |-> "self"]
NULL_SPAN == [low |-> <<NULL_VALUE>>, high |-> <<NULL_VALUE>>, incl |-> BOTH, tag |-> "null"]
VALUED_SPAN == [low |-> <<NULL_VALUE>>, high |-> <<>>, incl |-> HIGH, tag |-> "valued"]

FULL_SPANS == <<FULL_SPAN>>
SELF_SPANS == <<SELF_SPAN>>
NULL_SPANS == <<NULL_SPAN>>
VALUED_SPANS == <<VALUED_SPAN>>

\* span.Copy(): a new span object with the same bounds
CopySpan(s) == [s EXCEPT !.tag = ""]
CopySpans(ss) == [k \in 1..Len(ss) |-> CopySpan(ss[k])]

-----------------------------------------------------------------------------
(* Per-key visitors: sarger(expr2) of each predicate shape *)

newSargEq(p, expr2, mh) ==
    IF SubsetOf(p, expr2) THEN SELF_SPANS
    ELSE IF ~EquivalentTo(Operand(p), expr2) THEN <<>>
    ELSE IF mh THEN <<Span(<<p.lo>>, <<>>, BOTH)>>
    ELSE <<Span(<<p.lo>>, <<p.lo>>, BOTH)>>

newSargLT(p, expr2) ==
    IF SubsetOf(p, expr2) THEN SELF_SPANS
    ELSE IF ~EquivalentTo(Operand(p), expr2) THEN <<>>
    ELSE <<Span(<<>>, <<p.hi>>, NEITHER)>>

newSargLE(p, expr2) ==
    IF SubsetOf(p, expr2) THEN SELF_SPANS
    ELSE IF ~EquivalentTo(Operand(p), expr2) THEN <<>>
    ELSE <<Span(<<>>, <<p.hi>>, HIGH)>>

newSargGT(p, expr2) ==
    IF SubsetOf(p, expr2) THEN SELF_SPANS
    ELSE IF ~EquivalentTo(Operand(p), expr2) THEN <<>>
    ELSE <<Span(<<p.lo>>, <<>>, NEITHER)>>

newSargGE(p, expr2) ==
    IF SubsetOf(p, expr2) THEN SELF_SPANS
    ELSE IF ~EquivalentTo(Operand(p), expr2) THEN <<>>
    ELSE <<Span(<<p.lo>>, <<>>, LOW)>>

newSargBetween(p, expr2) ==
    IF SubsetOf(p, expr2) THEN SELF_SPANS
    ELSE IF ~EquivalentTo(Operand(p), expr2) THEN <<>>
    ELSE <<Span(<<p.lo>>, <<p.hi>>, BOTH)>>

newSargIn(p, expr2) ==
    IF SubsetOf(p, expr2) THEN SELF_SPANS
    ELSE IF ~EquivalentTo(Operand(p), expr2) THEN <<>>
    ELSE [k \in 1..p.hi |-> Span(<<k>>, <<k>>, BOTH)]

newSargNull(p, expr2) ==
    IF SubsetOf(p, expr2) THEN SELF_SPANS
    ELSE IF EquivalentTo(Operand(p), expr2) THEN NULL_SPANS
    ELSE <<>>

newSargNotNull(p, expr2) ==
    IF SubsetOf(p, expr2) THEN SELF_SPANS
    ELSE IF EquivalentTo(Operand(p), expr2) THEN VALUED_SPANS
    ELSE <<>>

-----------------------------------------------------------------------------
(* sargAnd: intersection of the operands' spans *)

\* value of the first component of a bound (nil when it is not a constant)
Value(bound) == bound[1]

constrainSpan(s1, s2) ==
    LET lowDone ==
            IF Len(s2.low) > 0
            THEN IF Len(s1.low) = 0
                 THEN [s1 EXCEPT !.low = s2.low,
                                 !.incl = BitOr(BitAnd(s1.incl, HIGH), BitAnd(s2.incl, LOW))]
                 ELSE LET low1 == Value(s1.low)
                          low2 == Value(s2.low)
                      IN  IF low1 # Nil /\ (low2 = Nil \/ Collate(low1, low2) < 0)
                          THEN [s1 EXCEPT !.low = s2.low,
                                          !.incl = BitOr(BitAnd(s1.incl, HIGH), BitAnd(s2.incl, LOW))]
                          ELSE s1
            ELSE s1
    IN  IF Len(s2.high) > 0
        THEN IF Len(lowDone.high) = 0
             THEN [lowDone EXCEPT !.high = s2.high,
                                  !.incl = BitOr(BitAnd(lowDone.incl, LOW), BitAnd(s2.incl, HIGH))]
             ELSE LET high1 == Value(lowDone.high)
                      high2 == Value(s2.high)
                  IN  IF high1 # Nil /\ (high2 = Nil /\ Collate(high1, high2) > 0)
                      THEN [lowDone EXCEPT !.high = s2.high,
                                           !.incl = BitOr(BitAnd(lowDone.incl, LOW), BitAnd(s2.incl, HIGH))]
                      ELSE lowDone
        ELSE lowDone

constrainSpans(spans1, spans2) ==
    IF Len(spans2) # 1 /\ Len(spans1) # 1
    THEN spans1
    ELSE LET sp1 == IF Len(spans2) # 1 THEN CopySpans(spans2) ELSE spans1
             sp2 == IF Len(spans2) # 1 THEN spans1 ELSE spans2
         IN  [k \in 1..Len(sp1) |-> constrainSpan(sp1[k], sp2[1])]

RECURSIVE sargFor(_, _, _)
RECURSIVE AndOperands(_, _, _, _, _)
\* the loop of newSargAnd over pred.Operands(), from operand k on
AndOperands(p, expr2, mh, k, spans) ==
    IF k > Len(p.ops) THEN spans
    ELSE LET s == sargFor(p.ops[k], expr2, mh)
         IN  IF Len(s) = 0 THEN AndOperands(p, expr2, mh, k + 1, spans)
             ELSE IF Len(spans) = 0
                  THEN AndOperands(p, expr2, mh, k + 1, CopySpans(s))
                  ELSE AndOperands(p, expr2, mh, k + 1, constrainSpans(spans, s))

newSargAnd(p, expr2, mh) ==
    IF SubsetOf(p, expr2) THEN SELF_SPANS
    ELSE AndOperands(p, expr2, mh, 1, <<>>)

\* newSarg(pred) followed by expr.Accept(s): dispatch on the predicate's shape
sargFor(p, expr, mh) ==
    CASE p.kind = "eq" -> newSargEq(p, expr, mh)
      [] p.kind = "lt" -> newSargLT(p, expr)
      [] p.kind = "le" -> newSargLE(p, expr)
      [] p.kind = "gt" -> newSargGT(p, expr)
      [] p.kind = "ge" -> newSargGE(p, expr)
      [] p.kind = "between" -> newSargBetween(p, expr)
      [] p.kind = "in" -> newSargIn(p, expr)
      [] p.kind = "isnull" -> newSargNull(p, expr)
      [] p.kind = "isnotnull" -> newSargNotNull(p, expr)
      [] p.kind = "and" -> newSargAnd(p, expr, mh)
      [] OTHER -> <<>>

-----------------------------------------------------------------------------
(* SargFor: composite spans of a key prefix, keys visited right to left *)

\* spans above which SargFor gives up and returns the full span
MaxSpans == 256
\* accumulated spans above which a key's spans are no longer multiplied
FanOut == 16

IsFull(s) == s.tag = "full"
Unbounded(s) == Len(s.low) = 0 /\ Len(s.high) = 0

\* ComposeLow with the two bounds appended in the wrong order
ComposeLowSwapped(pre, next) ==
    IF Len(pre.low) > 0 /\ Len(next.low) > 0
    THEN [pre EXCEPT !.low = next.low \o pre.low,
                     !.incl = BitOr(BitAnd(LOW, BitAnd(pre.incl, next.incl)),
                                    BitAnd(HIGH, pre.incl))]
    ELSE pre

\* body of the loop over next: pre is prev.Copy() extended by next
ComposeLow(pre, next) ==
    IF Len(pre.low) > 0 /\ Len(next.low) > 0
    THEN [pre EXCEPT !.low = pre.low \o next.low,
                     !.incl = BitOr(BitAnd(LOW, BitAnd(pre.incl, next.incl)),
                                    BitAnd(HIGH, pre.incl))]
    ELSE pre

\* ComposeHigh that leaves the high bound of prev as it is
ComposeHighKeep(pre, next) == pre

ComposeHigh(pre, next) ==
    IF Len(pre.high) > 0 /\ Len(next.high) > 0
    THEN [pre EXCEPT !.high = pre.high \o next.high,
                     !.incl = BitOr(BitAnd(HIGH, BitAnd(pre.incl, next.incl)),
                                    BitAnd(LOW, pre.incl))]
    ELSE pre

\* Compose whose high composition forgets the LOW bit
ComposeDropLowBit(prev, next) ==
    LET pre == ComposeLow(CopySpan(prev), next)
    IN  IF Len(pre.high) > 0 /\ Len(next.high) > 0
        THEN [pre EXCEPT !.high = pre.high \o next.high,
                         !.incl = BitAnd(HIGH, BitAnd(pre.incl, next.incl))]
        ELSE pre

Compose(prev, next) == ComposeHigh(ComposeLow(CopySpan(prev), next), next)

\* the flag add after the body
Added(prev, next) ==
    \/ Len(prev.low) > 0 /\ Len(next.low) > 0
    \/ Len(prev.high) > 0 /\ Len(next.high) > 0

\* pn: the composites built before the first next that adds nothing
RECURSIVE ComposeAll(_, _, _)
ComposeAll(prev, nexts, k) ==
    IF k > Len(nexts) \/ ~Added(prev, nexts[k]) THEN <<>>
    ELSE <<Compose(prev, nexts[k])>> \o ComposeAll(prev, nexts, k + 1)

\* PrevRow without the limit on the fan-out
PrevRowNoCap(prev, nexts) ==
    IF Unbounded(prev) THEN <<prev>>
    ELSE IF \E k \in 1..Len(nexts) : IsFull(nexts[k]) \/ Unbounded(nexts[k]) THEN <<prev>>
    ELSE LET pn == ComposeAll(prev, nexts, 1)
         IN  IF Len(pn) = Len(nexts) THEN pn ELSE <<prev>>

\* what one prev contributes to sp
PrevRow(prev, nexts) ==
    IF Unbounded(prev) THEN <<prev>>
    ELSE IF Len(nexts) > FanOut THEN <<prev>>
    ELSE IF \E k \in 1..Len(nexts) : IsFull(nexts[k]) \/ Unbounded(nexts[k]) THEN <<prev>>
    ELSE LET pn == ComposeAll(prev, nexts, 1)
         IN  IF Len(pn) = Len(nexts) THEN pn ELSE <<prev>>

RECURSIVE CrossProduct(_, _, _)
CrossProduct(prevs, nexts, k) ==
    IF k > Len(prevs) THEN <<>>
    ELSE PrevRow(prevs[k], nexts) \o CrossProduct(prevs, nexts, k + 1)

\* the first prev of rs that is the full span
FirstFull(prevs) == prevs[CHOOSE k \in 1..Len(prevs) :
                             IsFull(prevs[k]) /\ \A j \in 1..(k - 1) : ~IsFull(prevs[j])]

\* "Notify prev key that this key is missing a high bound"
NotifyMissingHigh(prevs) == \E k \in 1..Len(prevs) : Len(prevs[k].high) = 0

\* SargKeyStep that keeps the accumulated spans when the key yields none
SargKeyStepKeep(p, key, k, acc, mh) ==
    LET r == sargFor(p, key, mh)
        mh2 == IF k > 1 THEN NotifyMissingHigh(r) ELSE mh
    IN  IF Len(r) = 0
        THEN [ns |-> acc, mh |-> mh, rs |-> r, path |-> "empty"]
        ELSE IF Len(acc) = 0
        THEN [ns |-> r, mh |-> mh2, rs |-> r, path |-> "first"]
        ELSE IF \E j \in 1..Len(r) : IsFull(r[j])
        THEN [ns |-> <<FirstFull(r)>>, mh |-> mh2, rs |-> r, path |-> "full"]
        ELSE [ns |-> CrossProduct(r, acc, 1), mh |-> mh2, rs |-> r,
              path |-> IF Len(acc) > FanOut THEN "capped" ELSE "cross"]

\* One iteration of the loop "keys:" at key k (1-based) with accumulated spans
\* acc and flag mh: the new accumulated spans, the new flag, rs and the branch.
SargKeyStep(p, key, k, acc, mh) ==
    LET r == sargFor(p, key, mh)
        mh2 == IF k > 1 THEN NotifyMissingHigh(r) ELSE mh
    IN  IF Len(r) = 0
        THEN [ns |-> <<>>, mh |-> mh, rs |-> r, path |-> "empty"]
        ELSE IF Len(acc) = 0
        THEN [ns |-> r, mh |-> mh2, rs |-> r, path |-> "first"]
        ELSE IF \E j \in 1..Len(r) : IsFull(r[j])
        THEN [ns |-> <<FirstFull(r)>>, mh |-> mh2, rs |-> r, path |-> "full"]
        ELSE [ns |-> CrossProduct(r, acc, 1), mh |-> mh2, rs |-> r,
              path |-> IF Len(acc) > FanOut THEN "capped" ELSE "cross"]

\* SargResult that gives up only on an empty set
SargResultNoCap(acc) ==
    IF Len(acc) = 0 THEN FULL_SPANS ELSE acc

\* SargResult that returns nil when it gives up
SargResultNil(acc) ==
    IF Len(acc) = 0 \/ Len(acc) > MaxSpans THEN <<>> ELSE acc

\* the statement after the loop
SargResult(acc) ==
    IF Len(acc) = 0 \/ Len(acc) > MaxSpans THEN FULL_SPANS ELSE acc

\* SargFor as a function: the whole loop from key k down to the first key
RECURSIVE SargLoop(_, _, _, _, _)
SargLoop(p, keys, k, acc, mh) ==
    IF k = 0 THEN SargResult(acc)
    ELSE LET st == SargKeyStep(p, keys[k], k, acc, mh)
         IN  SargLoop(p, keys, k - 1, st.ns, st.mh)

SargFor(p, keys, tot) == SargLoop(p, keys, Len(keys), <<>>, Len(keys) < tot)

-----------------------------------------------------------------------------
(* What a span means: the rows of an index whose composite key it admits *)

\* a row gives every field a value; its key in an index is the tuple of
\* the values of the index's keys
RowVals == (NULL_VALUE..(MaxVal + 1)) \cup {FanOut, FanOut + 1}
Rows == [{Fields[k] : k \in 1..Len(Fields)} -> RowVals]
KeyOf(row, keys) == [k \in 1..Len(keys) |-> row[keys[k].fld]]

RECURSIVE Eval(_, _)
Eval(p, row) ==
    CASE p.kind = "eq" -> row[p.fld] = p.lo
      [] p.kind = "lt" -> row[p.fld] # NULL_VALUE /\ row[p.fld] < p.hi
      [] p.kind = "le" -> row[p.fld] # NULL_VALUE /\ row[p.fld] <= p.hi
      [] p.kind = "gt" -> row[p.fld] # NULL_VALUE /\ row[p.fld] > p.lo
      [] p.kind = "ge" -> row[p.fld] # NULL_VALUE /\ row[p.fld] >= p.lo
      [] p.kind = "between" -> row[p.fld] >= p.lo /\ row[p.fld] <= p.hi
      [] p.kind = "in" -> row[p.fld] \in p.lo..p.hi
      [] p.kind = "isnull" -> row[p.fld] = NULL_VALUE
      [] p.kind = "isnotnull" -> row[p.fld] # NULL_VALUE
      [] p.kind = "and" -> \A k \in 1..Len(p.ops) : Eval(p.ops[k], row)
      [] OTHER -> FALSE

\* lexicographic comparison of the key's leading components with a bound
RECURSIVE CompareBound(_, _, _)
CompareBound(key, bound, k) ==
    IF k > Len(bound) THEN 0
    ELSE IF Collate(key[k], bound[k]) # 0 THEN Collate(key[k], bound[k])
    ELSE CompareBound(key, bound, k + 1)

InSpan(key, s) ==
    /\ \/ Len(s.low) = 0
       \/ CompareBound(key, s.low, 1) > 0
       \/ CompareBound(key, s.low, 1) = 0 /\ BitAnd(s.incl, LOW) = LOW
    /\ \/ Len(s.high) = 0
       \/ CompareBound(key, s.high, 1) < 0
       \/ CompareBound(key, s.high, 1) = 0 /\ BitAnd(s.incl, HIGH) = HIGH

InSpans(key, ss) == \E k \in 1..Len(ss) : InSpan(key, ss[k])

-----------------------------------------------------------------------------
(* SargableFor: the longest key prefix the predicate constrains *)

SargOps == {"eq", "lt", "le", "gt", "ge", "between", "in", "isnull", "isnotnull"}

RECURSIVE SargableKey(_, _)
SargableKey(p, key) ==
    \/ SubsetOf(p, key)
    \/ p.kind \in SargOps /\ EquivalentTo(Operand(p), key)
    \/ p.kind = "and" /\ \E k \in 1..Len(p.ops) : SargableKey(p.ops[k], key)

RECURSIVE SargableFrom(_, _, _)
SargableFrom(p, keys, k) ==
    IF k > Len(keys) \/ ~SargableKey(p, keys[k]) THEN 0
    ELSE 1 + SargableFrom(p, keys, k + 1)

SargableFor(p, keys) == SargableFrom(p, keys, 1)

-----------------------------------------------------------------------------
(* The predicates and spans the specifications draw their inputs from *)

CmpOps == {"eq", "lt", "le", "gt", "ge"}
InSizes == {2, FanOut, FanOut + 1}

Atoms(f) ==
    {Cmp(op, f, c) : op \in CmpOps, c \in 1..MaxVal}
    \cup {Between(f, c[1], c[2]) : c \in {d \in (1..MaxVal) \X (1..MaxVal) : d[1] <= d[2]}}
    \cup {In(f, n) : n \in InSizes}
    \cup {IsNull(f), IsNotNull(f)}

FewAtoms(f) == {Cmp("eq", f, 1), Cmp("gt", f, 1), Cmp("le", f, MaxVal), In(f, 2)}

FieldIx == 1..Len(Fields)

PredSet ==
    UNION {Atoms(Fields[k]) : k \in FieldIx}
    \cup {And(<<x, y>>) : x \in Atoms(Fields[1]) \cup Atoms(Fields[2]),
                          y \in Atoms(Fields[1]) \cup Atoms(Fields[2])}
    \cup {And(<<x, y>>) : x \in Atoms(Fields[1]), y \in FewAtoms(Fields[Len(Fields)])}
    \cup {And(<<x, y, z>>) : x \in FewAtoms(Fields[1]), y \in FewAtoms(Fields[2]),
                             z \in FewAtoms(Fields[Len(Fields)])}
    \cup {And(<<Cmp("ge", Fields[1], l), Cmp("le", Fields[1], h), Cmp("eq", Fields[2], c)>>) :
              l \in 1..MaxVal, h \in 1..MaxVal, c \in 1..MaxVal}

Bounds1 == {<<>>} \cup {<<v>> : v \in NULL_VALUE..MaxVal}
KeySpans == {Span(l, h, inc) : l \in Bounds1, h \in Bounds1, inc \in {NEITHER, LOW, HIGH, BOTH}}

-----------------------------------------------------------------------------
(* One call of SargFor *)

(* The arguments of selectScan: USE KEYS, USE INDEX, the catalog, failures *)

\* shapes of the USE KEYS expression; n is the number of operands of an
\* array constructor
KeysExpr(k, n) == [kind |-> k, n |-> n]
NoKeys == KeysExpr("nil", 0)

\* datastore.IndexState; StateFails stands for a State() call that returns
\* an error
ONLINE == "online"
OFFLINE == "offline"
StateFails == "error"

\* an index of the catalog: its indexer (using), name, state, and what the
\* selector reads of it
NamedIndex(name, using, ks, c, prim, st) ==
    [keys |-> ks, cond |-> c, primary |-> prim, name |-> name, using |-> using,
     state |-> st]
NilIndex == NamedIndex("", "", <<>>, NoCond, FALSE, "")

\* one USE INDEX hint
IndexRef(name, using) == [name |-> name, using |-> using]

\* the call that fails in a run (at: the indexer or the index it fails for)
Failure(call, at) == [call |-> call, at |-> at]
NoFail == Failure("none", "")

\* SargFor returns an error for the index
SargForFails(index, f) == f.call = "SargFor" /\ f.at = index.name

\* a plan operator; scans are the children of a UnionScan or IntersectScan
Operator(kind, index, spans, covers, scans, ks) ==
    [kind |-> kind, index |-> index, spans |-> spans, covers |-> covers,
     scans |-> scans, keys |-> ks]
NoOperator == Operator("nil", NilIndex, <<>>, <<>>, <<>>, NoKeys)

PlanIdle ==
    /\ nodeKeys = NoKeys /\ hints = <<>> /\ catalog = <<>> /\ cover = <<>>
    /\ fail = NoFail /\ hintIndexes = <<>> /\ otherIndexes = <<>>
    /\ maxParallelism = 0 /\ lookups = {} /\ scanOp = NoOperator /\ err = "nil"
    /\ ppc = "idle"

ConnIdle ==
    /\ connPrimary = FALSE /\ connTimeout = FALSE /\ ctxErrors = <<>>
    /\ ctxOthers = <<>> /\ connCalls = <<>>

ScanIdle ==
    /\ scanImpl = "" /\ scanInput = <<>> /\ connSize = 0 /\ entryChannel = <<>>
    /\ chanClosed = FALSE /\ stopChannel = <<>> /\ toSend = <<>> /\ received = <<>>
    /\ scpc = "" /\ rpc = ""

JsonIdle ==
    /\ planNode = <<>> /\ store = <<>> /\ body = <<>> /\ decoded = <<>> /\ jpc = ""

FileIdle ==
    /\ files = <<>> /\ ioFails = {} /\ fileLock = "" /\ fileOp = <<>> /\ kvPairs = <<>>
    /\ fpos = <<>> /\ statErr = <<>> /\ insertedKeys = <<>> /\ returnErr = <<>>
    /\ filesAtLock = <<>> /\ fpc = <<>>

PoolIdle ==
    /\ arrays = <<>> /\ pooled = <<>> /\ values = <<>> /\ returned = <<>> /\ lastGet = <<>>

TailIdle == FileIdle /\ PoolIdle

LateIdle == ConnIdle /\ ScanIdle /\ JsonIdle /\ TailIdle

RestIdle == PlanIdle /\ LateIdle

SargIdle ==
    /\ pred = And(<<>>) /\ sargKeys = <<>> /\ total = 0 /\ i = 0 /\ ns = <<>>
    /\ missingHigh = FALSE /\ rs = <<>> /\ nsPrev = <<>> /\ path = "" /\ pc = "idle"
    /\ result = <<>>

ConstrainIdle ==
    /\ span1 = FULL_SPAN /\ span2 = FULL_SPAN /\ span1In = FULL_SPAN /\ cpc = "idle"

SelectIdle ==
    /\ where = And(<<>>) /\ indexes = {} /\ todo = {} /\ sargables = <<>>
    /\ visited = {} /\ minimals = <<>> /\ merr = "nil" /\ spc = "idle"

InitSarg ==
    /\ pred \in PredSet
    /\ total \in 1..MaxKeys
    /\ \E n \in 1..total : sargKeys = [k \in 1..n |-> Field(Fields[k])]
    /\ i = 0 /\ ns = <<>> /\ missingHigh = FALSE /\ rs = <<>> /\ nsPrev = <<>>
    /\ path = "" /\ pc = "call" /\ result = <<>>
    /\ ConstrainIdle /\ SelectIdle /\ RestIdle

\* n := len(sargKeys); s.SetMissingHigh(n < total); var ns plan.Spans
SargCall ==
    /\ pc = "call"
    /\ i' = Len(sargKeys)
    /\ missingHigh' = (Len(sargKeys) < total)
    /\ ns' = <<>>
    /\ pc' = "loop"
    /\ UNCHANGED <<pred, sargKeys, total, rs, nsPrev, path, result>>
    /\ UNCHANGED <<conVars, selVars, restVars>>

\* one iteration of the loop over the keys
SargKey ==
    /\ pc = "loop"
    /\ i >= 1
    /\ LET st == SargKeyStep(pred, sargKeys[i], i, ns, missingHigh)
       IN  /\ ns' = st.ns
           /\ missingHigh' = st.mh
           /\ rs' = st.rs
           /\ path' = st.path
    /\ nsPrev' = ns
    /\ i' = i - 1
    /\ UNCHANGED <<pred, sargKeys, total, pc, result>>
    /\ UNCHANGED <<conVars, selVars, restVars>>

\* the return after the loop
SargReturn ==
    /\ pc = "loop"
    /\ i = 0
    /\ result' = SargResult(ns)
    /\ pc' = "done"
    /\ UNCHANGED <<pred, sargKeys, total, i, ns, missingHigh, rs, nsPrev, path>>
    /\ UNCHANGED <<conVars, selVars, restVars>>

NextSarg == SargCall \/ SargKey \/ SargReturn

SpecSarg == InitSarg /\ [][NextSarg]_vars

-----------------------------------------------------------------------------
(* One call of constrainSpan *)

InitConstrain ==
    /\ span1 \in KeySpans
    /\ span2 \in KeySpans
    /\ span1In = span1
    /\ cpc = "call"
    /\ SargIdle /\ SelectIdle /\ RestIdle

ConstrainSpan ==
    /\ cpc = "call"
    /\ span1' = constrainSpan(span1, span2)
    /\ cpc' = "done"
    /\ UNCHANGED <<span2, span1In>>
    /\ UNCHANGED <<sargVars, selVars, restVars>>

NextConstrain == ConstrainSpan

SpecConstrain == InitConstrain /\ [][NextConstrain]_vars

-----------------------------------------------------------------------------
(* Index selection: sargableIndexes and minimalIndexes *)

Index(ks, c, prim) == [keys |-> ks, cond |-> c, primary |-> prim]

\* meta(alias).id, the key of a primary index
PrimaryKey == <<Field("id")>>

indexEntry(ks, sks, c, sps) == [keys |-> ks, sargKeys |-> sks, cond |-> c, spans |-> sps]

\* the result of one iteration of the loop of sargableIndexes that adds nothing
NoEntry == indexEntry(<<>>, <<>>, NoCond, <<>>)

\* sargableIndex that does not look at the condition of the index
sargableIndexNoCond(index, p) ==
    LET keys == IF index.primary THEN PrimaryKey ELSE index.keys
        n == SargableFor(p, keys)
    IN  IF n > 0 THEN indexEntry(keys, SubSeq(keys, 1, n), index.cond, <<>>)
        ELSE NoEntry

\* body of the loop of sargableIndexes: the entry stored for the index, if any.
\* Keys and conditions of the catalog are kept in normal form, so that the
\* formalizer and the DNF mapper leave them as they are.
sargableIndex(index, p) ==
    LET keys == IF index.primary THEN PrimaryKey ELSE index.keys
        n == SargableFor(p, keys)
    IN  IF index.cond # NoCond /\ ~SubsetOf(p, index.cond) THEN NoEntry
        ELSE IF n > 0 THEN indexEntry(keys, SubSeq(keys, 1, n), index.cond, <<>>)
        ELSE NoEntry

\* narrowerOrEquivalent whose tie-break wants strictly fewer keys
narrowerOrEquivalentStrict(se, te) ==
    IF Len(te.sargKeys) > Len(se.sargKeys) THEN FALSE
    ELSE IF te.cond # NoCond /\ (se.cond = NoCond \/ ~SubsetOf(se.cond, te.cond)) THEN FALSE
    ELSE IF \E k \in 1..Len(te.sargKeys) :
               \A j \in 1..Len(se.sargKeys) : ~SubsetOf(se.sargKeys[j], te.sargKeys[k])
         THEN FALSE
    ELSE Len(se.sargKeys) > Len(te.sargKeys) \/ Len(se.keys) < Len(te.keys)

narrowerOrEquivalent(se, te) ==
    IF Len(te.sargKeys) > Len(se.sargKeys) THEN FALSE
    ELSE IF te.cond # NoCond /\ (se.cond = NoCond \/ ~SubsetOf(se.cond, te.cond)) THEN FALSE
    ELSE IF \E k \in 1..Len(te.sargKeys) :
               \A j \in 1..Len(se.sargKeys) : ~SubsetOf(se.sargKeys[j], te.sargKeys[k])
         THEN FALSE
    ELSE Len(se.sargKeys) > Len(te.sargKeys) \/ Len(se.keys) <= Len(te.keys)

\* an inner loop without the test t == s: the entry prunes itself as well
pruneByNoSkip(m, s) ==
    [t \in {u \in DOMAIN m : ~narrowerOrEquivalent(m[s], m[u])} |-> m[t]]

\* the inner loop of minimalIndexes for the entry s of the outer loop:
\* the map after every other entry that s makes redundant is deleted
pruneBy(m, s) ==
    [t \in {u \in DOMAIN m : u = s \/ ~narrowerOrEquivalent(m[s], m[u])} |-> m[t]]

\* the second loop of minimalIndexes: the spans of every entry that is left
sargEntries(m, p) ==
    [s \in DOMAIN m |-> [m[s] EXCEPT !.spans = SargFor(p, m[s].sargKeys, Len(m[s].keys))]]

\* a second loop that keeps every entry whatever SargFor returns
sargNeverFailed(m, p, f) == FALSE

\* the second loop of minimalIndexes returns a plan error at the first entry
\* for which SargFor fails or gives no span
sargFailed(m, p, f) ==
    \E s \in DOMAIN m :
        \/ SargForFails(s, f)
        \/ Len(SargFor(p, m[s].sargKeys, Len(m[s].keys))) = 0

\* the catalog the selections draw their indexes from
SelKeys == {<<Field("a")>>, <<Field("b")>>, <<Field("a"), Field("b")>>,
            <<Field("b"), Field("a")>>, <<Field("a"), Field("c")>>}
SelConds == {NoCond, Cmp("ge", "a", 1), Cmp("gt", "a", 1)}
Catalog == {Index(ks, c, FALSE) : ks \in SelKeys, c \in SelConds}
               \cup {Index(PrimaryKey, NoCond, TRUE)}

SelAtoms == FewAtoms("a") \cup FewAtoms("b")
SelPreds == SelAtoms \cup {Cmp("eq", "id", 1)}
                     \cup {And(<<x, y>>) : x \in FewAtoms("a"), y \in FewAtoms("b")}

InitSelect ==
    /\ where \in SelPreds
    /\ indexes \in {S \in SUBSET Catalog : Cardinality(S) >= 1 /\ Cardinality(S) <= MaxIndexes}
    /\ todo = indexes
    /\ sargables = <<>>
    /\ visited = {}
    /\ minimals = <<>>
    /\ merr = "nil"
    /\ spc = "sargable"
    /\ SargIdle /\ ConstrainIdle /\ RestIdle

\* one iteration of the loop of sargableIndexes
SargableIndex ==
    /\ spc = "sargable"
    /\ \E index \in todo :
         LET e == sargableIndex(index, where)
         IN  /\ todo' = todo \ {index}
             /\ sargables' = IF e = NoEntry THEN sargables
                             ELSE [t \in DOMAIN sargables \cup {index} |->
                                      IF t = index THEN e ELSE sargables[t]]
    /\ UNCHANGED <<where, indexes, visited, minimals, merr, spc>>
    /\ UNCHANGED <<sargVars, conVars, restVars>>

\* sargableIndexes returns and minimalIndexes begins
SargablesDone ==
    /\ spc = "sargable"
    /\ todo = {}
    /\ spc' = "prune"
    /\ UNCHANGED <<where, indexes, todo, sargables, visited, minimals, merr>>
    /\ UNCHANGED <<sargVars, conVars, restVars>>

\* one iteration of the outer loop of minimalIndexes: the map yields an entry
\* it holds and has not yielded before, in no particular order
MinimalOuter ==
    /\ spc = "prune"
    /\ \E s \in DOMAIN sargables \ visited :
         /\ sargables' = pruneBy(sargables, s)
         /\ visited' = visited \cup {s}
    /\ UNCHANGED <<where, indexes, todo, minimals, merr, spc>>
    /\ UNCHANGED <<sargVars, conVars, restVars>>

\* the second loop of minimalIndexes and its return
MinimalSarg ==
    /\ spc = "prune"
    /\ DOMAIN sargables \subseteq visited
    /\ minimals' = IF sargFailed(sargables, where, fail) THEN <<>>
                    ELSE sargEntries(sargables, where)
    /\ merr' = IF sargFailed(sargables, where, fail) THEN "PlanError" ELSE "nil"
    /\ spc' = "done"
    /\ UNCHANGED <<where, indexes, todo, sargables, visited>>
    /\ UNCHANGED <<sargVars, conVars, restVars>>

NextSelect == SargableIndex \/ SargablesDone \/ MinimalOuter \/ MinimalSarg

SpecSelect == InitSelect /\ [][NextSelect]_vars

-----------------------------------------------------------------------------
(* selectScan: candidates, scan tree, primary fallback *)

\* result of a call that returns a list of indexes or an error
IndexesResult(ixs, e) == [indexes |-> ixs, err |-> e]

\* the indexers keyspace.Indexers() reports, in its order
Usings == <<"gsi", "view">>

\* indexer.Indexes(), indexer.PrimaryIndexes(), indexer.IndexByName(name)
IndexesOf(cat, using) == SelectSeq(cat, LAMBDA x : x.using = using)
PrimaryIndexesOf(cat, using) == SelectSeq(cat, LAMBDA x : x.using = using /\ x.primary)
IndexNamed(cat, using, name) == SelectSeq(cat, LAMBDA x : x.using = using /\ x.name = name)

\* a state test that lets an index through when State() fails
IsOnlineOrFails(index) == index.state # OFFLINE

\* an index passes the state test of the enumeration
IsOnline(index) == ~(index.state = StateFails \/ index.state # ONLINE)

\* the indexes of a list that pass the state test, in the order of the list
OnlineOf(ixs) == SelectSeq(ixs, IsOnline)

\* allHints: the hinted indexes that are ONLINE; a hint that names no indexer
\* or no index of its indexer ends the call with an error
RECURSIVE allHintsFrom(_, _, _, _)
allHintsFrom(cat, hs, k, acc) ==
    IF k > Len(hs) THEN IndexesResult(acc, "nil")
    ELSE IF \A u \in 1..Len(Usings) : Usings[u] # hs[k].using
         THEN IndexesResult(<<>>, "Indexer")
    ELSE IF IndexNamed(cat, hs[k].using, hs[k].name) = <<>>
         THEN IndexesResult(<<>>, "IndexByName")
    ELSE allHintsFrom(cat, hs, k + 1,
                      acc \o OnlineOf(SubSeq(IndexNamed(cat, hs[k].using, hs[k].name), 1, 1)))

allHints(cat, hs) == allHintsFrom(cat, hs, 1, <<>>)

\* allIndexes: the ONLINE indexes of every indexer
RECURSIVE allIndexesFrom(_, _, _, _)
allIndexesFrom(cat, f, u, acc) ==
    IF u > Len(Usings) THEN IndexesResult(acc, "nil")
    ELSE IF f.call = "Indexes" /\ f.at = Usings[u] THEN IndexesResult(<<>>, "Indexes")
    ELSE allIndexesFrom(cat, f, u + 1, acc \o OnlineOf(IndexesOf(cat, Usings[u])))

allIndexes(cat, f) ==
    IF f.call = "Indexers" THEN IndexesResult(<<>>, "Indexers")
    ELSE allIndexesFrom(cat, f, 1, <<>>)

\* index.(datastore.PrimaryIndex): every primary index of the code base
\* implements PrimaryIndex
IsPrimaryIndex(index) == index.primary

\* result of buildPrimaryIndex
PrimaryResult(index, e) == [primary |-> index, err |-> e]

\* the last primary of a list
LastPrimary(ixs) ==
    LET ps == SelectSeq(ixs, LAMBDA x : x.primary)
    IN  IF ps = <<>> THEN PrimaryResult(NilIndex, "none")
        ELSE PrimaryResult(ps[Len(ps)], "nil")

\* the first two loops of buildPrimaryIndex: the first primary of a list
FirstPrimary(ixs) ==
    LET ps == SelectSeq(ixs, LAMBDA x : x.primary)
    IN  IF ps = <<>> THEN PrimaryResult(NilIndex, "none")
        ELSE IF IsPrimaryIndex(ps[1]) THEN PrimaryResult(ps[1], "nil")
        ELSE PrimaryResult(NilIndex, "Cast")

\* the inner loop of the third part: the primaries of one indexer; last is
\* the value the loop variable primary holds
RECURSIVE OnlinePrimaryIn(_, _, _)
OnlinePrimaryIn(ps, k, last) ==
    IF k > Len(ps) THEN [found |-> FALSE, res |-> PrimaryResult(last, "nil")]
    ELSE IF ps[k].state = StateFails THEN [found |-> TRUE, res |-> PrimaryResult(NilIndex, "State")]
    ELSE IF ps[k].state = ONLINE THEN [found |-> TRUE, res |-> PrimaryResult(ps[k], "nil")]
    ELSE OnlinePrimaryIn(ps, k + 1, ps[k])

\* the third part of buildPrimaryIndex: the first ONLINE primary of the
\* catalog, indexer by indexer
RECURSIVE OnlinePrimaryFrom(_, _, _, _)
OnlinePrimaryFrom(cat, f, u, last) ==
    IF u > Len(Usings)
    THEN IF last = NilIndex THEN PrimaryResult(NilIndex, "NoPrimary")
         ELSE PrimaryResult(NilIndex, "NotOnline")
    ELSE IF f.call = "PrimaryIndexes" /\ f.at = Usings[u]
         THEN PrimaryResult(NilIndex, "PrimaryIndexes")
    ELSE LET r == OnlinePrimaryIn(PrimaryIndexesOf(cat, Usings[u]), 1, last)
         IN  IF r.found THEN r.res
             ELSE OnlinePrimaryFrom(cat, f, u + 1, r.res.primary)

\* buildPrimaryIndex returns nil and its own err, which is nil, when
\* keyspace.Indexers() fails
buildPrimaryIndex(cat, f, his, ois) ==
    IF FirstPrimary(his).err # "none" THEN FirstPrimary(his)
    ELSE IF FirstPrimary(ois).err # "none" THEN FirstPrimary(ois)
    ELSE IF f.call = "Indexers" THEN PrimaryResult(NilIndex, "nil")
    ELSE OnlinePrimaryFrom(cat, f, 1, NilIndex)

\* plan.NewIndexScan, NewUnionScan, NewIntersectScan, NewPrimaryScan, NewKeyScan
NewIndexScan(index, spans, covers) ==
    Operator("IndexScan", index, spans, covers, <<>>, NoKeys)
NewUnionScan(scans) == Operator("UnionScan", NilIndex, <<>>, <<>>, scans, NoKeys)
NewIntersectScan(scans) == Operator("IntersectScan", NilIndex, <<>>, <<>>, scans, NoKeys)
NewPrimaryScan(index) == Operator("PrimaryScan", index, <<>>, <<>>, <<>>, NoKeys)
NewKeyScan(ks) == Operator("KeyScan", NilIndex, <<>>, <<>>, <<>>, ks)

\* expr.CoveredBy(keys): the expression is one of the keys
CoveredBy(expr, ks) == \E k \in 1..Len(ks) : EquivalentTo(expr, ks[k])

\* the index covers some expression of the cover set
CoversSome(entry, cv) == \E k \in 1..Len(cv) : CoveredBy(cv[k], entry.keys)

\* the index covers every expression of the cover set
Covers(entry, cv) == \A k \in 1..Len(cv) : CoveredBy(cv[k], entry.keys)

\* the orders in which a map can yield its entries
Orders(S) ==
    {o \in [1..Cardinality(S) -> S] : \A x, y \in 1..Cardinality(S) : o[x] = o[y] => x = y}

\* buildCoveringScan for a map that yields its entries in the given order:
\* the scan of the first entry that covers the set, if any
buildCoveringScan(m, order, cv) ==
    LET covering == SelectSeq(order, LAMBDA s : Covers(m[s], cv))
    IN  IF cv = <<>> \/ covering = <<>> THEN NoOperator
        ELSE NewIndexScan(covering[1], m[covering[1]].spans, m[covering[1]].keys)

\* the scan of one entry, never wrapped
EntryScanBare(index, entry) == NewIndexScan(index, entry.spans, <<>>)

\* the scan of one entry: a UnionScan around it when it has several spans
EntryScan(index, entry) ==
    IF Len(entry.spans) > 1
    THEN NewUnionScan(<<NewIndexScan(index, entry.spans, <<>>)>>)
    ELSE NewIndexScan(index, entry.spans, <<>>)

\* the loop of buildSecondaryScan when no entry covers
buildIndexScans(m, order) ==
    LET scans == [k \in 1..Len(order) |-> EntryScan(order[k], m[order[k]])]
    IN  IF Len(scans) > 1 THEN NewIntersectScan(scans) ELSE scans[1]

buildSecondaryScan(m, order, cv) ==
    IF cv # <<>> /\ buildCoveringScan(m, order, cv) # NoOperator
    THEN buildCoveringScan(m, order, cv)
    ELSE buildIndexScans(m, order)

\* the parallelism selectScan sets for a USE KEYS expression
MaxInt(x, y) == IF x > y THEN x ELSE y

\* the number of operands of an array, 0 for a parameter, else 1
KeysParallelismLen(ks) ==
    CASE ks.kind = "array" -> ks.n
      [] ks.kind \in {"named", "positional"} -> 0
      [] OTHER -> 1

KeysParallelism(ks) ==
    CASE ks.kind = "array" -> MaxInt(1, ks.n)
      [] ks.kind \in {"named", "positional"} -> 0
      [] OTHER -> 1

\* the indexes the catalogs are made of, in the order the indexers list them
PlanPool ==
    <<NamedIndex("#primary", "gsi", <<>>, NoCond, TRUE, ONLINE),
      NamedIndex("ia", "gsi", <<Field("a")>>, NoCond, FALSE, ONLINE),
      NamedIndex("iab", "gsi", <<Field("a"), Field("b")>>, NoCond, FALSE, ONLINE),
      NamedIndex("#vprimary", "view", <<>>, NoCond, TRUE, ONLINE),
      NamedIndex("ib", "view", <<Field("b")>>, NoCond, FALSE, ONLINE)>>

IndexStates == {ONLINE, OFFLINE, StateFails}

\* the indexes of the pool at the positions of S, with the states st gives
RECURSIVE Pick(_, _, _)
Pick(S, st, k) ==
    IF k > Len(PlanPool) THEN <<>>
    ELSE (IF k \in S THEN <<[PlanPool[k] EXCEPT !.state = st[k]]>> ELSE <<>>)
             \o Pick(S, st, k + 1)

PlanCatalogs ==
    {Pick(S, st, 1) :
        st \in [DOMAIN PlanPool -> IndexStates],
        S \in {T \in SUBSET (DOMAIN PlanPool) : Cardinality(T) <= MaxIndexes}}

Reverse(seq) == [k \in 1..Len(seq) |-> seq[Len(seq) + 1 - k]]
HintsOf(cat) == [k \in 1..Len(cat) |-> IndexRef(cat[k].name, cat[k].using)]

\* USE INDEX: none, every index of the catalog in either order, every index
\* that is not primary, an index the indexer does not have, an indexer the
\* keyspace does not have
PlanHints(cat) ==
    {<<>>, HintsOf(cat), Reverse(HintsOf(cat)),
     HintsOf(SelectSeq(cat, LAMBDA x : ~x.primary))}
BadHints(cat) ==
    {HintsOf(cat) \o <<IndexRef("ix", "gsi")>>, <<IndexRef("ia", "fts")>> \o HintsOf(cat)}

PlanPreds ==
    {NoCond, Cmp("eq", "a", 1), In("a", 2), Cmp("eq", "c", 1), Cmp("eq", "id", 1),
     And(<<In("a", 2), Cmp("ge", "b", 1)>>)}

PlanCovers == {<<>>, <<Field("a")>>, <<Field("a"), Field("b")>>}

PlanKeys ==
    {KeysExpr("array", n) : n \in 0..MaxKeys}
        \cup {KeysExpr(k, 0) : k \in {"named", "positional", "other"}}

PlanFailures(cat) ==
    {Failure("Indexers", "")}
        \cup {Failure(c, Usings[u]) : c \in {"Indexes", "PrimaryIndexes"}, u \in 1..Len(Usings)}
        \cup {Failure("SargFor", cat[k].name) : k \in 1..Len(cat)}

InitPlan ==
    /\ catalog \in PlanCatalogs
    /\ \/ /\ nodeKeys = NoKeys /\ fail = NoFail
          /\ where \in PlanPreds
          /\ hints \in PlanHints(catalog)
          /\ cover \in PlanCovers
       \/ /\ nodeKeys = NoKeys /\ fail = NoFail
          /\ where \in {NoCond, Cmp("eq", "a", 1)}
          /\ hints \in BadHints(catalog)
          /\ cover = <<>>
       \/ /\ nodeKeys = NoKeys /\ fail \in PlanFailures(catalog)
          /\ where \in {NoCond, Cmp("eq", "c", 1), And(<<In("a", 2), Cmp("ge", "b", 1)>>)}
          /\ hints \in {<<>>, HintsOf(catalog)}
          /\ cover = <<>>
       \/ /\ nodeKeys \in PlanKeys \cup {NoKeys} /\ fail = NoFail
          /\ where \in {NoCond, Cmp("eq", "a", 1)}
          /\ hints \in {<<>>, HintsOf(catalog)}
          /\ cover = <<>>
    /\ hintIndexes = <<>> /\ otherIndexes = <<>>
    /\ maxParallelism \in IF fail = NoFail /\ cover = <<>> THEN {0, MaxKeys} ELSE {0}
    /\ lookups = {} /\ scanOp = NoOperator /\ err = "nil"
    /\ ppc = "start"
    /\ indexes = {} /\ todo = {} /\ sargables = <<>> /\ visited = {}
    /\ minimals = <<>> /\ merr = "nil" /\ spc = "idle"
    /\ SargIdle /\ ConstrainIdle /\ LateIdle

Range(seq) == {seq[k] : k \in 1..Len(seq)}

\* selectScan with USE KEYS
SelectKeyScan ==
    /\ ppc = "start"
    /\ nodeKeys # NoKeys
    /\ maxParallelism' = KeysParallelism(nodeKeys)
    /\ scanOp' = NewKeyScan(nodeKeys)
    /\ ppc' = "done"
    /\ UNCHANGED <<nodeKeys, hints, catalog, cover, fail, hintIndexes, otherIndexes,
                   lookups, err>>
    /\ UNCHANGED <<sargVars, conVars, selVars, lateVars>>

\* a buildScan that looks for sargable indexes even without a predicate
SelectsAlways(w) == TRUE

\* buildScan looks for sargable indexes only when there is a predicate
SelectsIndexes(w) == w # NoCond

\* selectScan without USE KEYS up to the call of sargableIndexes: the
\* candidates are fetched; an error ends the call, no predicate leads to the
\* primary scan
GatherIndexes ==
    /\ ppc = "start"
    /\ nodeKeys = NoKeys
    /\ maxParallelism' = 0
    /\ lookups' = lookups \cup {"catalog"}
    /\ LET r == IF hints # <<>> THEN allHints(catalog, hints) ELSE allIndexes(catalog, fail)
       IN  /\ hintIndexes' = IF hints # <<>> THEN r.indexes ELSE <<>>
           /\ otherIndexes' = IF hints # <<>> THEN <<>> ELSE r.indexes
           /\ err' = r.err
           /\ indexes' = Range(r.indexes)
           /\ todo' = IF r.err = "nil" /\ SelectsIndexes(where) THEN Range(r.indexes) ELSE {}
           /\ spc' = IF r.err = "nil" /\ SelectsIndexes(where) THEN "sargable" ELSE spc
           /\ ppc' = IF r.err # "nil" THEN "done"
                     ELSE IF SelectsIndexes(where) THEN "select" ELSE "primary"
    /\ UNCHANGED <<nodeKeys, hints, catalog, cover, fail, scanOp>>
    /\ UNCHANGED <<where, sargables, visited, minimals, merr>>
    /\ UNCHANGED <<sargVars, conVars, lateVars>>

\* buildScan returns the error of minimalIndexes
SelectFailed ==
    /\ ppc = "select" /\ spc = "done"
    /\ merr # "nil"
    /\ err' = merr
    /\ ppc' = "done"
    /\ UNCHANGED <<nodeKeys, hints, catalog, cover, fail, hintIndexes, otherIndexes,
                   maxParallelism, lookups, scanOp>>
    /\ UNCHANGED <<sargVars, conVars, selVars, lateVars>>

\* buildSecondaryScan on the entries minimalIndexes has returned; the map
\* yields them in no particular order
BuildSecondary ==
    /\ ppc = "select" /\ spc = "done"
    /\ merr = "nil"
    /\ DOMAIN minimals # {}
    /\ \E order \in Orders(DOMAIN minimals) :
           scanOp' = buildSecondaryScan(minimals, order, cover)
    /\ ppc' = "done"
    /\ UNCHANGED <<nodeKeys, hints, catalog, cover, fail, hintIndexes, otherIndexes,
                   maxParallelism, lookups, err>>
    /\ UNCHANGED <<sargVars, conVars, selVars, lateVars>>

\* buildPrimaryScan: no predicate, or no entry left
BuildPrimary ==
    /\ \/ ppc = "primary"
       \/ ppc = "select" /\ spc = "done" /\ merr = "nil" /\ DOMAIN minimals = {}
    /\ lookups' = lookups \cup {"primary"}
    /\ LET r == buildPrimaryIndex(catalog, fail, hintIndexes, otherIndexes)
       IN  /\ err' = r.err
           /\ scanOp' = IF r.err = "nil" THEN NewPrimaryScan(r.primary) ELSE NoOperator
    /\ ppc' = "done"
    /\ UNCHANGED <<nodeKeys, hints, catalog, cover, fail, hintIndexes, otherIndexes,
                   maxParallelism>>
    /\ UNCHANGED <<sargVars, conVars, selVars, lateVars>>

NextPlan ==
    \/ SelectKeyScan \/ GatherIndexes
    \/ SargableIndex \/ SargablesDone \/ MinimalOuter \/ MinimalSarg
    \/ SelectFailed \/ BuildSecondary \/ BuildPrimary

SpecPlan == InitPlan /\ [][NextPlan]_vars

-----------------------------------------------------------------------------
(* IndexConnection: errors, the primary mark and the timeout flag *)

\* error codes: the scan timeout and any other code
INDEX_SCAN_TIMEOUT == "INDEX_SCAN_TIMEOUT"
ErrorCodes == {INDEX_SCAN_TIMEOUT, "OTHER"}

\* one call on the connection
ConnCall(name, code) == [call |-> name, code |-> code]

\* an Error that keeps every scan timeout from the context
SuppressedAnywhere(prim, code) == code = INDEX_SCAN_TIMEOUT

\* IndexConnection.Error keeps the error from the context
Suppressed(prim, code) == prim /\ code = INDEX_SCAN_TIMEOUT

\* NewIndexConnection
InitConn ==
    /\ connPrimary = FALSE /\ connTimeout = FALSE
    /\ ctxErrors = <<>> /\ ctxOthers = <<>> /\ connCalls = <<>>
    /\ SargIdle /\ ConstrainIdle /\ SelectIdle /\ PlanIdle /\ ScanIdle /\ JsonIdle
    /\ TailIdle

ConnError ==
    /\ Len(connCalls) < MaxCalls
    /\ \E code \in ErrorCodes :
         /\ connTimeout' = IF Suppressed(connPrimary, code) THEN TRUE ELSE connTimeout
         /\ ctxErrors' = IF Suppressed(connPrimary, code) THEN ctxErrors
                          ELSE Append(ctxErrors, code)
         /\ connCalls' = Append(connCalls, ConnCall("Error", code))
    /\ UNCHANGED <<connPrimary, ctxOthers>>
    /\ UNCHANGED <<sargVars, conVars, selVars, planVars, scanVars, jsonVars, tailVars>>

ConnFatal ==
    /\ Len(connCalls) < MaxCalls
    /\ \E code \in ErrorCodes :
         /\ ctxOthers' = Append(ctxOthers, code)
         /\ connCalls' = Append(connCalls, ConnCall("Fatal", code))
    /\ UNCHANGED <<connPrimary, connTimeout, ctxErrors>>
    /\ UNCHANGED <<sargVars, conVars, selVars, planVars, scanVars, jsonVars, tailVars>>

ConnWarning ==
    /\ Len(connCalls) < MaxCalls
    /\ \E code \in ErrorCodes :
         /\ ctxOthers' = Append(ctxOthers, code)
         /\ connCalls' = Append(connCalls, ConnCall("Warning", code))
    /\ UNCHANGED <<connPrimary, connTimeout, ctxErrors>>
    /\ UNCHANGED <<sargVars, conVars, selVars, planVars, scanVars, jsonVars, tailVars>>

SetPrimary ==
    /\ Len(connCalls) < MaxCalls
    /\ connPrimary' = TRUE
    /\ connCalls' = Append(connCalls, ConnCall("SetPrimary", ""))
    /\ UNCHANGED <<connTimeout, ctxErrors, ctxOthers>>
    /\ UNCHANGED <<sargVars, conVars, selVars, planVars, scanVars, jsonVars, tailVars>>

\* Timeout() reads the flag
Timeout ==
    /\ Len(connCalls) < MaxCalls
    /\ connCalls' = Append(connCalls, ConnCall("Timeout", IF connTimeout THEN "true" ELSE "false"))
    /\ UNCHANGED <<connPrimary, connTimeout, ctxErrors, ctxOthers>>
    /\ UNCHANGED <<sargVars, conVars, selVars, planVars, scanVars, jsonVars, tailVars>>

NextConn == ConnError \/ ConnFatal \/ ConnWarning \/ SetPrimary \/ Timeout

SpecConn == InitConn /\ [][NextConn]_vars

-----------------------------------------------------------------------------
(* Scan and ScanEntries of the mock, file and system primary indexes *)

ScanImpls == {"mock.Scan", "mock.ScanEntries", "file.Scan", "file.ScanEntries",
              "system.Scan", "system.ScanEntries"}

\* a span bound of a primary scan: absent, not a string, or an id (0 or more)
NoBound == 0 - 1
BadBound == 0 - 2

\* The ids are the numbers 0..n-1.  The mock index compares their decimal
\* strings; for one-digit ids (MaxItems <= 10) that is the order of the numbers.
\* n items, the dir-th of them (if any) a directory; fails: the listing call
\* (ReadDir, NamespaceIds) returns an error
ScanCall(n, dir, low, high, incl, limit, fails) ==
    [n |-> n, dir |-> dir, low |-> low, high |-> high, incl |-> incl,
     limit |-> limit, fails |-> fails]

\* the id is below the low bound of the span
BelowLow(id, low, incl) ==
    low # NoBound /\ (id < low \/ (id = low /\ BitAnd(incl, LOW) = 0))

\* the id is above the high bound of the span
AboveHigh(id, high, incl) ==
    high # NoBound /\ (id > high \/ (id = high /\ BitAnd(incl, HIGH) = 0))

\* mock primaryIndex.Scan: the loop from index k on, k < nitems and k < limit
RECURSIVE mockScanFrom(_, _, _, _)
mockScanFrom(in, k, low, limit) ==
    IF ~(k < in.n /\ k < limit) THEN <<>>
    ELSE IF BelowLow(k, low, in.incl) THEN mockScanFrom(in, k + 1, low, limit)
    ELSE IF AboveHigh(k, in.high, in.incl) THEN <<>>
    ELSE <<k>> \o mockScanFrom(in, k + 1, NoBound, limit)

mockScan(in) == mockScanFrom(in, 0, in.low, IF in.limit = 0 THEN in.n ELSE in.limit)

\* mock primaryIndex.ScanEntries
RECURSIVE mockScanEntriesFrom(_, _, _)
mockScanEntriesFrom(in, k, limit) ==
    IF ~(k < in.n /\ k < limit) THEN <<>>
    ELSE <<k>> \o mockScanEntriesFrom(in, k + 1, limit)

mockScanEntries(in) == mockScanEntriesFrom(in, 0, IF in.limit = 0 THEN in.n ELSE in.limit)

\* the k-th directory entry (from 0) is a directory
IsDir(in, k) == in.dir = k + 1

\* file primaryIndex.Scan: the loop from the k-th directory entry on, n sent
RECURSIVE fileScanFrom(_, _, _, _)
fileScanFrom(in, k, n, low) ==
    IF k >= in.n THEN <<>>
    ELSE IF in.limit > 0 /\ n > in.limit THEN <<>>
    ELSE IF BelowLow(k, low, in.incl) THEN fileScanFrom(in, k + 1, n, low)
    ELSE IF AboveHigh(k, in.high, in.incl) THEN <<>>
    ELSE IF IsDir(in, k) THEN fileScanFrom(in, k + 1, n, NoBound)
    ELSE <<k>> \o fileScanFrom(in, k + 1, n + 1, NoBound)

fileScan(in) == fileScanFrom(in, 0, 0, in.low)

\* file primaryIndex.ScanEntries
RECURSIVE fileScanEntriesFrom(_, _)
fileScanEntriesFrom(in, k) ==
    IF k >= in.n THEN <<>>
    ELSE IF in.limit > 0 /\ k > in.limit THEN <<>>
    ELSE IF IsDir(in, k) THEN fileScanEntriesFrom(in, k + 1)
    ELSE <<k>> \o fileScanEntriesFrom(in, k + 1)

fileScanEntries(in) == fileScanEntriesFrom(in, 0)

\* system namespaceIndex.Scan: the namespace with the sought id, if any
namespaceScan(in) == IF in.low \in 0..(in.n - 1) THEN <<in.low>> ELSE <<>>

\* system namespaceIndex.ScanEntries
RECURSIVE namespaceScanEntriesFrom(_, _)
namespaceScanEntriesFrom(in, k) ==
    IF k >= in.n THEN <<>>
    ELSE IF in.limit > 0 /\ k > in.limit THEN <<>>
    ELSE <<k>> \o namespaceScanEntriesFrom(in, k + 1)

namespaceScanEntries(in) == namespaceScanEntriesFrom(in, 0)

\* the keys the call sends, in order
ScanKeys(impl, in) ==
    CASE impl = "mock.Scan" -> mockScan(in)
      [] impl = "mock.ScanEntries" -> mockScanEntries(in)
      [] impl = "file.Scan" -> fileScan(in)
      [] impl = "file.ScanEntries" -> fileScanEntries(in)
      [] impl = "system.Scan" -> namespaceScan(in)
      [] impl = "system.ScanEntries" -> namespaceScanEntries(in)

\* the call reports an error to the connection before its loop
ScanReports(impl, in) ==
    CASE impl = "mock.Scan" -> in.low = BadBound \/ in.high = BadBound
      [] impl = "mock.ScanEntries" -> FALSE
      [] impl = "file.Scan" -> in.low = BadBound \/ in.high = BadBound \/ in.fails
      [] impl = "file.ScanEntries" -> in.fails
      [] impl = "system.Scan" -> in.low = BadBound
      [] impl = "system.ScanEntries" -> FALSE

\* the call returns before its loop
ScanReturns(impl, in) ==
    ScanReports(impl, in) \/ (impl = "system.ScanEntries" /\ in.fails)

\* the calls of one implementation
ScanCalls(impl) ==
    CASE impl \in {"mock.Scan", "file.Scan"} ->
           { ScanCall(n, dir, low, high, incl, limit, fails) :
               n \in {0, MaxItems}, dir \in (IF impl = "file.Scan" THEN {0, 2} ELSE {0}),
               low \in {NoBound, BadBound, 1}, high \in {NoBound, BadBound, MaxItems - 2},
               incl \in {NEITHER, BOTH}, limit \in {0, 1},
               fails \in (IF impl = "file.Scan" THEN BOOLEAN ELSE {FALSE}) }
      [] impl = "system.Scan" ->
           { ScanCall(n, 0, low, NoBound, BOTH, 0, FALSE) :
               n \in {0, MaxItems}, low \in {BadBound, 0, MaxItems} }
      [] OTHER ->
           { ScanCall(n, dir, NoBound, NoBound, BOTH, limit, fails) :
               n \in 0..MaxItems, dir \in (IF impl = "file.ScanEntries" THEN {0, 2} ELSE {0}),
               limit \in {0, 1, MaxItems},
               fails \in (IF impl = "mock.ScanEntries" THEN {FALSE} ELSE BOOLEAN) }

\* NewSizedIndexConnection, and the scan and its consumer started
InitScan ==
    /\ scanImpl \in ScanImpls
    /\ scanInput \in ScanCalls(scanImpl)
    /\ connSize \in 1..MaxCap
    /\ entryChannel = <<>> /\ chanClosed = FALSE /\ stopChannel = <<>>
    /\ toSend = <<>> /\ received = <<>>
    /\ scpc = "start" /\ rpc = "reading"
    /\ ConnIdle /\ JsonIdle /\ TailIdle
    /\ SargIdle /\ ConstrainIdle /\ SelectIdle /\ PlanIdle

\* ScanStart without the deferred close on the early returns
ScanStartNoDefer ==
    /\ scpc = "start"
    /\ IF ScanReturns(scanImpl, scanInput)
       THEN /\ scpc' = "done" /\ toSend' = <<>>
            /\ UNCHANGED <<chanClosed, ctxErrors, connTimeout, connCalls>>
       ELSE /\ toSend' = ScanKeys(scanImpl, scanInput)
            /\ scpc' = "loop"
            /\ UNCHANGED <<chanClosed, ctxErrors, connTimeout, connCalls>>
    /\ UNCHANGED <<scanImpl, scanInput, connSize, entryChannel, stopChannel, received, rpc>>
    /\ UNCHANGED <<connPrimary, ctxOthers>>
    /\ UNCHANGED <<sargVars, conVars, selVars, planVars, jsonVars, tailVars>>

\* the scan up to its loop; an early return runs the deferred close
ScanStart ==
    /\ scpc = "start"
    /\ IF ScanReturns(scanImpl, scanInput)
       THEN /\ chanClosed' = TRUE /\ scpc' = "done" /\ toSend' = <<>>
            /\ IF ScanReports(scanImpl, scanInput)
               THEN /\ ctxErrors' = IF Suppressed(connPrimary, "OTHER") THEN ctxErrors
                                     ELSE Append(ctxErrors, "OTHER")
                    /\ connTimeout' = IF Suppressed(connPrimary, "OTHER") THEN TRUE
                                      ELSE connTimeout
                    /\ connCalls' = Append(connCalls, ConnCall("Error", "OTHER"))
               ELSE UNCHANGED <<ctxErrors, connTimeout, connCalls>>
       ELSE /\ toSend' = ScanKeys(scanImpl, scanInput)
            /\ scpc' = "loop"
            /\ UNCHANGED <<chanClosed, ctxErrors, connTimeout, connCalls>>
    /\ UNCHANGED <<scanImpl, scanInput, connSize, entryChannel, stopChannel, received, rpc>>
    /\ UNCHANGED <<connPrimary, ctxOthers>>
    /\ UNCHANGED <<sargVars, conVars, selVars, planVars, jsonVars, tailVars>>

\* conn.EntryChannel() <- &entry: blocks while the channel is full
ScanSend ==
    /\ scpc = "loop" /\ toSend # <<>>
    /\ Len(entryChannel) < connSize
    /\ entryChannel' = Append(entryChannel, Head(toSend))
    /\ toSend' = Tail(toSend)
    /\ UNCHANGED <<scanImpl, scanInput, connSize, chanClosed, stopChannel, received, scpc, rpc>>
    /\ UNCHANGED <<sargVars, conVars, selVars, planVars, connVars, jsonVars, tailVars>>

\* the loop is over: the deferred close(conn.EntryChannel())
ScanClose ==
    /\ scpc = "loop" /\ toSend = <<>>
    /\ chanClosed' = TRUE /\ scpc' = "done"
    /\ UNCHANGED <<scanImpl, scanInput, connSize, entryChannel, stopChannel, toSend, received, rpc>>
    /\ UNCHANGED <<sargVars, conVars, selVars, planVars, connVars, jsonVars, tailVars>>

\* the consumer receives an entry
Receive ==
    /\ rpc = "reading" /\ entryChannel # <<>>
    /\ received' = Append(received, Head(entryChannel))
    /\ entryChannel' = Tail(entryChannel)
    /\ UNCHANGED <<scanImpl, scanInput, connSize, chanClosed, stopChannel, toSend, scpc, rpc>>
    /\ UNCHANGED <<sargVars, conVars, selVars, planVars, connVars, jsonVars, tailVars>>

\* the consumer finds the channel closed and drained
ReceiveClosed ==
    /\ rpc = "reading" /\ entryChannel = <<>> /\ chanClosed
    /\ rpc' = "done"
    /\ UNCHANGED <<scanImpl, scanInput, connSize, entryChannel, chanClosed, stopChannel,
                   toSend, received, scpc>>
    /\ UNCHANGED <<sargVars, conVars, selVars, planVars, connVars, jsonVars, tailVars>>

\* the consumer writes to the stop channel and reads no more
SendStop ==
    /\ rpc = "reading"
    /\ stopChannel' = Append(stopChannel, TRUE)
    /\ rpc' = "stopped"
    /\ UNCHANGED <<scanImpl, scanInput, connSize, entryChannel, chanClosed, toSend,
                   received, scpc>>
    /\ UNCHANGED <<sargVars, conVars, selVars, planVars, connVars, jsonVars, tailVars>>

NextScan == ScanStart \/ ScanSend \/ ScanClose \/ Receive \/ ReceiveClosed \/ SendStop

SpecScan == InitScan /\ [][NextScan]_vars

\* the scan runs in a goroutine of its own: a step it can take is taken
SpecScanLive ==
    SpecScan /\ WF_vars(ScanStart) /\ WF_vars(ScanSend) /\ WF_vars(ScanClose)

-----------------------------------------------------------------------------
(* MarshalJSON and UnmarshalJSON of IndexScan, UnionScan and IntersectScan *)

\* an expression of a plan: none, a field or a constant
NilExpr == [kind |-> "nil", name |-> ""]
FieldExpr(f) == [kind |-> "field", name |-> f]
ConstExpr(c) == [kind |-> "const", name |-> c]

\* expression.NewStringer().Visit(expr): the text, as a sequence of tokens
Stringer(e) == IF e.kind = "field" THEN <<"(", e.name, ")">> ELSE <<e.name>>

\* parser.Parse(text)
Parsed(e, er) == [expr |-> e, err |-> er]
Parse(t) ==
    IF Len(t) = 3 /\ t[1] = "(" /\ t[3] = ")" THEN Parsed(FieldExpr(t[2]), "nil")
    ELSE IF Len(t) = 1 THEN Parsed(ConstExpr(t[1]), "nil")
    ELSE Parsed(NilExpr, "syntax error")

\* expression.NewCover(expr) and its JSON text
NewCover(e) == [kind |-> "cover", of |-> e]
MarshalCover(c) == Stringer(c.of)

\* a Go slice: nil, or its items
NilSlice == [nil |-> TRUE, items |-> <<>>]
Slice(items) == [nil |-> FALSE, items |-> items]

\* the identity of an index in the catalog
IndexId(nsp, ks, using, name) ==
    [namespace |-> nsp, keyspace |-> ks, using |-> using, name |-> name]
NilIndexId == IndexId("", "", "", "")

\* algebra.NewKeyspaceTerm(namespace, keyspace, nil, as, nil, nil)
KeyspaceTerm(nsp, ks, as) == [namespace |-> nsp, keyspace |-> ks, as |-> as]
NilTerm == KeyspaceTerm("", "", "")

\* a scan node with every field of IndexScan, UnionScan and IntersectScan
ScanNode(kind, index, term, spans, distinct, limit, covers, scans) ==
    [kind |-> kind, index |-> index, term |-> term, spans |-> spans,
     distinct |-> distinct, limit |-> limit, covers |-> covers, scans |-> scans]
IndexScan(index, term, spans, distinct, limit, covers) ==
    ScanNode("IndexScan", index, term, spans, distinct, limit, covers, <<>>)
UnionScan(scans) ==
    ScanNode("UnionScan", NilIndexId, NilTerm, <<>>, FALSE, NilExpr, NilSlice, scans)
IntersectScan(scans) ==
    ScanNode("IntersectScan", NilIndexId, NilTerm, <<>>, FALSE, NilExpr, NilSlice, scans)

\* New(): the node UnmarshalJSON fills
ZeroNode(kind) ==
    ScanNode(kind, NilIndexId, NilTerm, <<>>, FALSE, NilExpr, NilSlice, <<>>)

\* the JSON of a span and the span of a JSON
MarshalSpan(sp) ==
    [Range |-> [Low |-> sp.low, High |-> sp.high, Inclusion |-> sp.incl]]
UnmarshalSpan(j) == Span(j.Range.Low, j.Range.High, j.Range.Inclusion)

\* an IndexScan.MarshalJSON that writes "distinct" never
MarshalIndexScanPlain(n) ==
    ("#operator" :> "IndexScan") @@ ("index" :> n.index.name)
    @@ ("namespace" :> n.term.namespace) @@ ("keyspace" :> n.term.keyspace)
    @@ ("using" :> n.index.using)
    @@ ("spans" :> [k \in 1..Len(n.spans) |-> MarshalSpan(n.spans[k])])
    @@ (IF n.limit # NilExpr THEN "limit" :> Stringer(n.limit) ELSE <<>>)
    @@ (IF ~n.covers.nil
        THEN "covers" :> [k \in 1..Len(n.covers.items) |-> MarshalCover(n.covers.items[k])]
        ELSE <<>>)

\* IndexScan.MarshalJSON
MarshalIndexScan(n) ==
    ("#operator" :> "IndexScan") @@ ("index" :> n.index.name)
    @@ ("namespace" :> n.term.namespace) @@ ("keyspace" :> n.term.keyspace)
    @@ ("using" :> n.index.using)
    @@ ("spans" :> [k \in 1..Len(n.spans) |-> MarshalSpan(n.spans[k])])
    @@ (IF n.distinct THEN "distinct" :> TRUE ELSE <<>>)
    @@ (IF n.limit # NilExpr THEN "limit" :> Stringer(n.limit) ELSE <<>>)
    @@ (IF ~n.covers.nil
        THEN "covers" :> [k \in 1..Len(n.covers.items) |-> MarshalCover(n.covers.items[k])]
        ELSE <<>>)

\* MarshalJSON of a node; UnionScan and IntersectScan marshal their scans
RECURSIVE MarshalJSON(_)
MarshalJSON(n) ==
    IF n.kind = "IndexScan" THEN MarshalIndexScan(n)
    ELSE ("#operator" :> n.kind)
         @@ ("scans" :> [k \in 1..Len(n.scans) |-> MarshalJSON(n.scans[k])])

\* json.Unmarshal of one key: the zero value when the key is absent
JsonField(b, key, zero) == IF key \in DOMAIN b THEN b[key] ELSE zero

\* the catalog: its keyspaces, their indexers and the indexes of each
Resolved(v, er) == [val |-> v, err |-> er]
GetKeyspace(st, nsp, ks) ==
    IF <<nsp, ks>> \in st.keyspaces THEN Resolved(<<nsp, ks>>, "nil")
    ELSE Resolved(<<>>, "keyspace not found")
Indexer(st, ksp, using) ==
    IF <<ksp[1], ksp[2], using>> \in st.indexers
    THEN Resolved(<<ksp[1], ksp[2], using>>, "nil")
    ELSE Resolved(<<>>, "indexer not found")
IndexByName(st, ixr, name) ==
    IF IndexId(ixr[1], ixr[2], ixr[3], name) \in st.indexes
    THEN Resolved(IndexId(ixr[1], ixr[2], ixr[3], name), "nil")
    ELSE Resolved(NilIndexId, "index not found")

\* the result of UnmarshalJSON: the node as far as it was filled, the error
Decoded(n, er) == [node |-> n, err |-> er]

\* IndexScan.UnmarshalJSON
UnmarshalIndexScan(b, st) ==
    LET nsp == JsonField(b, "namespace", "")
        ks == JsonField(b, "keyspace", "")
        raws == JsonField(b, "spans", <<>>)
        limitText == JsonField(b, "limit", <<>>)
        texts == JsonField(b, "covers", <<>>)
        ksp == GetKeyspace(st, nsp, ks)
        n1 == [ZeroNode("IndexScan") EXCEPT
                  !.term = KeyspaceTerm(nsp, ks, ""),
                  !.spans = [k \in 1..Len(raws) |-> UnmarshalSpan(raws[k])],
                  !.distinct = JsonField(b, "distinct", FALSE)]
        lim == IF limitText # <<>> THEN Parse(limitText) ELSE Parsed(NilExpr, "nil")
        n2 == [n1 EXCEPT !.limit = lim.expr]
        parsed == [k \in 1..Len(texts) |-> Parse(texts[k])]
        bad == {k \in 1..Len(texts) : parsed[k].err # "nil"}
        n3 == IF "covers" \in DOMAIN b
              THEN [n2 EXCEPT !.covers =
                       Slice([k \in 1..Len(texts) |-> NewCover(parsed[k].expr)])]
              ELSE n2
        ixr == Indexer(st, ksp.val, JsonField(b, "using", ""))
        index == IndexByName(st, ixr.val, JsonField(b, "index", ""))
    IN  IF ksp.err # "nil" THEN Decoded(ZeroNode("IndexScan"), ksp.err)
        ELSE IF lim.err # "nil" THEN Decoded(n1, lim.err)
        ELSE IF bad # {} THEN Decoded(n2, "syntax error")
        ELSE IF ixr.err # "nil" THEN Decoded(n3, ixr.err)
        ELSE Decoded([n3 EXCEPT !.index = index.val], index.err)

RECURSIVE UnmarshalJSON(_, _, _)
RECURSIVE UnmarshalScansFrom(_, _, _, _)

\* MakeOperator(name, body): a new node of that operator, unmarshalled
MakeOperator(name, raw, st) ==
    IF name \in {"IndexScan", "UnionScan", "IntersectScan"}
    THEN UnmarshalJSON(name, raw, st)
    ELSE Decoded(ZeroNode(name), "no operator of that name")

\* the loop of UnionScan / IntersectScan.UnmarshalJSON from the k-th raw scan
UnmarshalScansFrom(raws, k, st, acc) ==
    IF k > Len(raws) THEN Decoded(acc, "nil")
    ELSE IF JsonField(raws[k], "#operator", "") = ""
         THEN UnmarshalScansFrom(raws, k + 1, st, acc)
         ELSE LET d == MakeOperator(raws[k]["#operator"], raws[k], st)
              IN  IF d.err # "nil" THEN Decoded(acc, d.err)
                  ELSE UnmarshalScansFrom(raws, k + 1, st, Append(acc, d.node))

\* UnmarshalJSON of a node of the given operator
UnmarshalJSON(kind, b, st) ==
    IF kind = "IndexScan" THEN UnmarshalIndexScan(b, st)
    ELSE LET r == UnmarshalScansFrom(JsonField(b, "scans", <<>>), 1, st, <<>>)
         IN  Decoded([ZeroNode(kind) EXCEPT !.scans = r.node], r.err)

\* the indexes of the catalog, and the catalogs: all of it, or without the
\* keyspace, the gsi indexer or the index ia
JsonIndexes ==
    {IndexId("default", "beer", "gsi", "ia"), IndexId("default", "beer", "view", "ib")}
FullStore ==
    [keyspaces |-> {<<"default", "beer">>},
     indexers |-> {<<"default", "beer", Usings[k]>> : k \in DOMAIN Usings},
     indexes |-> JsonIndexes]
JsonStores ==
    {FullStore,
     [FullStore EXCEPT !.keyspaces = {}],
     [FullStore EXCEPT !.indexers = {<<"default", "beer", "view">>}],
     [FullStore EXCEPT !.indexes = {IndexId("default", "beer", "view", "ib")}]}

JsonSpans ==
    {<<Span(<<1>>, <<1>>, BOTH)>>,
     <<Span(<<1>>, <<>>, LOW), Span(<<>>, <<MaxVal>>, NEITHER)>>}
JsonCovers ==
    {NilSlice, Slice(<<>>), Slice(<<NewCover(FieldExpr("a"))>>),
     Slice(<<NewCover(FieldExpr("a")), NewCover(FieldExpr("b"))>>)}

\* the IndexScan nodes, those used as children, and all the nodes
IndexScans ==
    { IndexScan(ix, KeyspaceTerm(ix.namespace, ix.keyspace, as), sps, d, lim, cv) :
        ix \in JsonIndexes, as \in {"", "b"}, sps \in JsonSpans, d \in BOOLEAN,
        lim \in {NilExpr, ConstExpr("10")}, cv \in JsonCovers }
ChildScans ==
    { n \in IndexScans : /\ n.term.as = "" /\ ~n.distinct /\ n.limit = NilExpr
                         /\ Len(n.spans) = 1 /\ Len(n.covers.items) # 1 }
ScanLists(S) == UNION {[1..m -> S] : m \in 1..MaxScans}
JsonNodes ==
    IndexScans
    \cup {UnionScan(ss) : ss \in ScanLists(ChildScans)}
    \cup {IntersectScan(ss) : ss \in ScanLists(ChildScans)}
    \cup {IntersectScan(<<UnionScan(ss), c>>) :
             ss \in ScanLists({c \in ChildScans : c.covers.nil}), c \in ChildScans}

InitJson ==
    /\ planNode \in JsonNodes
    /\ store \in JsonStores
    /\ body = <<>> /\ decoded = <<>> /\ jpc = "start"
    /\ ConnIdle /\ ScanIdle /\ TailIdle
    /\ SargIdle /\ ConstrainIdle /\ SelectIdle /\ PlanIdle

Marshal ==
    /\ jpc = "start"
    /\ body' = MarshalJSON(planNode)
    /\ jpc' = "marshalled"
    /\ UNCHANGED <<planNode, store, decoded>>
    /\ UNCHANGED <<sargVars, conVars, selVars, planVars, connVars, scanVars, tailVars>>

Unmarshal ==
    /\ jpc = "marshalled"
    /\ decoded' = UnmarshalJSON(body["#operator"], body, store)
    /\ jpc' = "done"
    /\ UNCHANGED <<planNode, store, body>>
    /\ UNCHANGED <<sargVars, conVars, selVars, planVars, connVars, scanVars, tailVars>>

NextJson == Marshal \/ Unmarshal

SpecJson == InitJson /\ [][NextJson]_vars

-----------------------------------------------------------------------------
(* File keyspace: performOp behind Insert, Update and Upsert *)

INSERT == "insert"
UPDATE == "update"
UPSERT == "upsert"
FileOps == {INSERT, UPDATE, UPSERT}

\* the goroutines that call the keyspace, and the keys they write
Callers == {"A", "B"}
FileKeys == {"k1", "k2"}

\* no file of that name in the directory
NoFile == <<>>

\* json.Marshal(kv.Value.Actual()): the bytes written to the file
jsonMarshal(v) == <<v>>

\* a document that is in the directory before any call
OldDoc == jsonMarshal(0)

\* datastore.Pair
Pair(key, value) == [key |-> key, value |-> value]

\* the values of a caller's pairs tell the callers and the pairs apart
ValueOf(c, k) == (IF c = "A" THEN 10 ELSE 20) + k

Batches(c) ==
    UNION {{[k \in 1..n |-> Pair(ks[k], ValueOf(c, k))] : ks \in [1..n -> FileKeys]} :
              n \in 0..MaxBatch}

\* a mutex that lets every caller in
lockAlwaysFree(holder) == TRUE

\* b.fileLock.Lock() returns only while no caller holds the lock
lockFree(holder) == holder = ""

\* result of the switch of performOp for one pair
PairResult(fs, e) == [files |-> fs, err |-> e]

\* a switch whose UPDATE writes like UPSERT when the file is not there
performPairUpdateCreates(o, statFailed, fs, key, value, bad) ==
    LET written == PairResult([fs EXCEPT ![key] = jsonMarshal(value)], FALSE)
        failed == PairResult(fs, TRUE)
    IN  CASE o = INSERT -> IF ~statFailed THEN failed
                           ELSE IF key \in bad THEN failed ELSE written
          [] o = UPDATE -> IF key \in bad THEN failed ELSE written
          [] o = UPSERT -> IF key \in bad THEN failed ELSE written

\* the switch of performOp for one pair, after os.Stat for INSERT and UPDATE:
\* os.Create and os.OpenFile with O_CREATE make the file, O_TRUNC empties it,
\* OpenFile without O_CREATE fails when the file is not there
performPair(o, statFailed, fs, key, value, bad) ==
    LET written == PairResult([fs EXCEPT ![key] = jsonMarshal(value)], FALSE)
        failed == PairResult(fs, TRUE)
    IN  CASE o = INSERT -> IF ~statFailed THEN failed
                           ELSE IF key \in bad THEN failed ELSE written
          [] o = UPDATE -> IF statFailed THEN failed
                           ELSE IF key \in bad \/ fs[key] = NoFile THEN failed
                           ELSE written
          [] o = UPSERT -> IF key \in bad THEN failed ELSE written

InitFile ==
    /\ files \in [FileKeys -> {NoFile, OldDoc}]
    /\ ioFails \in {{}, {"k2"}}
    /\ fileLock = ""
    /\ fileOp \in [Callers -> FileOps]
    /\ kvPairs \in {f \in [Callers -> UNION {Batches(c) : c \in Callers}] :
                        \A c \in Callers : f[c] \in Batches(c)}
    /\ fpos = [c \in Callers |-> 0]
    /\ statErr = [c \in Callers |-> FALSE]
    /\ insertedKeys = [c \in Callers |-> <<>>]
    /\ returnErr = [c \in Callers |-> 0]
    /\ filesAtLock = [c \in Callers |-> files]
    /\ fpc = [c \in Callers |-> "call"]
    /\ PoolIdle /\ ConnIdle /\ ScanIdle /\ JsonIdle
    /\ SargIdle /\ ConstrainIdle /\ SelectIdle /\ PlanIdle

\* performOp on an empty batch: nil and an error, the lock is not taken
PerformEmpty(c) ==
    /\ fpc[c] = "call" /\ Len(kvPairs[c]) = 0
    /\ returnErr' = [returnErr EXCEPT ![c] = 1]
    /\ fpc' = [fpc EXCEPT ![c] = "done"]
    /\ UNCHANGED <<files, ioFails, fileLock, fileOp, kvPairs, fpos, statErr, insertedKeys,
                   filesAtLock>>
    /\ UNCHANGED <<sargVars, conVars, selVars, planVars, connVars, scanVars, jsonVars, poolVars>>

\* b.fileLock.Lock()
LockFile(c) ==
    /\ fpc[c] = "call" /\ Len(kvPairs[c]) > 0
    /\ lockFree(fileLock)
    /\ fileLock' = c
    /\ filesAtLock' = [filesAtLock EXCEPT ![c] = files]
    /\ fpos' = [fpos EXCEPT ![c] = 1]
    /\ fpc' = [fpc EXCEPT ![c] = "loop"]
    /\ UNCHANGED <<files, ioFails, fileOp, kvPairs, statErr, insertedKeys, returnErr>>
    /\ UNCHANGED <<sargVars, conVars, selVars, planVars, connVars, scanVars, jsonVars, poolVars>>

\* os.Stat(filename) of INSERT and UPDATE
StatFile(c) ==
    /\ fpc[c] = "loop" /\ fpos[c] <= Len(kvPairs[c])
    /\ fileOp[c] \in {INSERT, UPDATE}
    /\ statErr' = [statErr EXCEPT ![c] = files[kvPairs[c][fpos[c]].key] = NoFile]
    /\ fpc' = [fpc EXCEPT ![c] = "statted"]
    /\ UNCHANGED <<files, ioFails, fileLock, fileOp, kvPairs, fpos, insertedKeys, returnErr,
                   filesAtLock>>
    /\ UNCHANGED <<sargVars, conVars, selVars, planVars, connVars, scanVars, jsonVars, poolVars>>

\* the rest of the loop body: the file is written or the error is chained
WriteFile(c) ==
    /\ \/ fpc[c] = "statted"
       \/ fpc[c] = "loop" /\ fpos[c] <= Len(kvPairs[c]) /\ fileOp[c] = UPSERT
    /\ LET kv == kvPairs[c][fpos[c]]
           r == performPair(fileOp[c], statErr[c], files, kv.key, kv.value, ioFails)
       IN  /\ files' = r.files
           /\ returnErr' = [returnErr EXCEPT ![c] = IF r.err THEN @ + 1 ELSE @]
           /\ insertedKeys' = [insertedKeys EXCEPT ![c] = IF r.err THEN @ ELSE Append(@, kv)]
    /\ fpos' = [fpos EXCEPT ![c] = @ + 1]
    /\ fpc' = [fpc EXCEPT ![c] = "loop"]
    /\ UNCHANGED <<ioFails, fileLock, fileOp, kvPairs, statErr, filesAtLock>>
    /\ UNCHANGED <<sargVars, conVars, selVars, planVars, connVars, scanVars, jsonVars, poolVars>>

\* the loop is over: performOp returns and the deferred Unlock runs
ReturnFile(c) ==
    /\ fpc[c] = "loop" /\ fpos[c] > Len(kvPairs[c])
    /\ fileLock' = ""
    /\ fpc' = [fpc EXCEPT ![c] = "done"]
    /\ UNCHANGED <<files, ioFails, fileOp, kvPairs, fpos, statErr, insertedKeys, returnErr,
                   filesAtLock>>
    /\ UNCHANGED <<sargVars, conVars, selVars, planVars, connVars, scanVars, jsonVars, poolVars>>

NextFile ==
    \E c \in Callers :
        PerformEmpty(c) \/ LockFile(c) \/ StatFile(c) \/ WriteFile(c) \/ ReturnFile(c)

SpecFile == InitFile /\ [][NextFile]_vars

-----------------------------------------------------------------------------
(* InterfacePool and the Collect operators that draw their slices from it *)

\* the Collect operators of a run and the items they are sent
Collects == {"c1", "c2"}
CollectItems == {1, 2}

\* a slice: its backing array (0 for a nil slice) and its length
SliceOf(arr, n) == [arr |-> arr, len |-> n]
NoValues == SliceOf(0, 0)

\* the operator is not constructed yet
Unborn == SliceOf(0 - 1, 0)

\* cap(s)
CapOf(arrs, sl) == IF sl.arr = 0 THEN 0 ELSE Len(arrs[sl.arr])

\* make([]interface{}, 0, n): a backing array of n empty slots
MakeArray(n) == [k \in 1..n |-> 0]

\* value.NewValue(slice): the value wraps the slice it is given; snap is what
\* the value held when it was made
NewValue(arrs, sl) ==
    [arr |-> sl.arr, len |-> sl.len,
     snap |-> IF sl.arr = 0 THEN <<>> ELSE SubSeq(arrs[sl.arr], 1, sl.len)]
NoValue == [arr |-> 0, len |-> 0, snap |-> <<>>]

\* sequence without its k-th element
RemoveAt(seq, k) == SubSeq(seq, 1, k - 1) \o SubSeq(seq, k + 1, Len(seq))

\* InterfacePool.Put: a slice of another capacity is dropped, else s[0:0] is
\* handed to the sync.Pool
Put(arrs, pl, sl) == IF CapOf(arrs, sl) # CollectCap THEN pl ELSE Append(pl, sl.arr)

\* InterfacePool.Get for the Collect c: sync.Pool hands out one of the slices
\* it holds, whichever, or the result of New
Get(c) ==
    /\ \/ \E k \in 1..Len(pooled) :
             /\ values' = [values EXCEPT ![c] = SliceOf(pooled[k], 0)]
             /\ lastGet' = SliceOf(pooled[k], 0)
             /\ pooled' = RemoveAt(pooled, k)
             /\ UNCHANGED arrays
       \/ /\ Len(arrays) < MaxArrays
          /\ arrays' = Append(arrays, MakeArray(CollectCap))
          /\ values' = [values EXCEPT ![c] = SliceOf(Len(arrays) + 1, 0)]
          /\ lastGet' = SliceOf(Len(arrays) + 1, 0)
          /\ UNCHANGED pooled
    /\ UNCHANGED returned
    /\ UNCHANGED <<sargVars, conVars, selVars, planVars, connVars, scanVars, jsonVars, fileVars>>

InitPool ==
    /\ arrays = <<>> /\ pooled = <<>>
    /\ values = [c \in Collects |-> Unborn]
    /\ returned = [c \in Collects |-> NoValue]
    /\ lastGet = NoValues
    /\ FileIdle /\ ConnIdle /\ ScanIdle /\ JsonIdle
    /\ SargIdle /\ ConstrainIdle /\ SelectIdle /\ PlanIdle

\* NewCollect()
NewCollect(c) ==
    /\ values[c] = Unborn
    /\ Get(c)

\* Collect.Copy() of the constructed operator c: the operator d
CopyCollect(c, d) ==
    /\ values[c] # Unborn /\ values[d] = Unborn
    /\ Get(d)

\* Collect.processItem: a full slice moves to an array of twice the length
\* and is released; the item is appended
processItem(c, item) ==
    /\ values[c] # Unborn
    /\ values[c].len <= CollectCap
    /\ IF values[c].len = CapOf(arrays, values[c])
       THEN /\ Len(arrays) < MaxArrays
            /\ LET n == values[c].len
                   old == IF n = 0 THEN <<>> ELSE SubSeq(arrays[values[c].arr], 1, n)
                   \* append to a slice of capacity 0 allocates one slot
                   grown == old \o <<item>> \o MakeArray((IF n = 0 THEN 1 ELSE 2 * n) - n - 1)
               IN  /\ arrays' = Append(arrays, grown)
                   /\ values' = [values EXCEPT ![c] = SliceOf(Len(arrays) + 1, n + 1)]
            /\ pooled' = Put(arrays, pooled, values[c])
       ELSE /\ arrays' = [arrays EXCEPT ![values[c].arr][values[c].len + 1] = item]
            /\ values' = [values EXCEPT ![c] = SliceOf(values[c].arr, values[c].len + 1)]
            /\ UNCHANGED pooled
    /\ UNCHANGED <<returned, lastGet>>
    /\ UNCHANGED <<sargVars, conVars, selVars, planVars, connVars, scanVars, jsonVars, fileVars>>

\* Collect.ValuesOnce: the value is made, then the deferred releaseValues
\* puts the slice back and clears this.values
ValuesOnce(c) ==
    /\ values[c] # Unborn
    /\ returned[c] = NoValue
    /\ returned' = [returned EXCEPT ![c] = NewValue(arrays, values[c])]
    /\ pooled' = Put(arrays, pooled, values[c])
    /\ values' = [values EXCEPT ![c] = NoValues]
    /\ UNCHANGED <<arrays, lastGet>>
    /\ UNCHANGED <<sargVars, conVars, selVars, planVars, connVars, scanVars, jsonVars, fileVars>>

\* the caller of ValuesOnce is done with the value
DropValue(c) ==
    /\ returned[c] # NoValue
    /\ returned' = [returned EXCEPT ![c] = NoValue]
    /\ UNCHANGED <<arrays, pooled, values, lastGet>>
    /\ UNCHANGED <<sargVars, conVars, selVars, planVars, connVars, scanVars, jsonVars, fileVars>>

\* the garbage collector empties the sync.Pool
PoolCleared ==
    /\ pooled # <<>>
    /\ pooled' = <<>>
    /\ UNCHANGED <<arrays, values, returned, lastGet>>
    /\ UNCHANGED <<sargVars, conVars, selVars, planVars, connVars, scanVars, jsonVars, fileVars>>

NextPool ==
    \/ \E c \in Collects : NewCollect(c) \/ ValuesOnce(c) \/ DropValue(c)
    \/ \E c \in Collects : \E d \in Collects \ {c} : CopyCollect(c, d)
    \/ \E c \in Collects : \E item \in CollectItems : processItem(c, item)
    \/ PoolCleared

SpecPool == InitPool /\ [][NextPool]_vars

-----------------------------------------------------------------------------
(* Properties of SargFor *)

\* the keys of the index whose prefix sargKeys is
IndexKeys == [k \in 1..total |-> Field(Fields[k])]

\* SargFor was called the way the selector calls it: on the sargable prefix
ChosenIndex == Len(sargKeys) = SargableFor(pred, IndexKeys)

\* C1: soundness of span building.  When SargFor has returned for an index
\* chosen for the predicate, every row that satisfies the predicate has its
\* composite index key inside at least one of the returned spans.
C1_SargSound ==
    (pc = "done" /\ ChosenIndex) =>
        \A row \in Rows : Eval(pred, row) => InSpans(KeyOf(row, IndexKeys), result)

C1_Witness ==
    /\ pc = "done" /\ ChosenIndex
    /\ path = "cross"
    /\ pred.kind = "and"
    /\ result # FULL_SPANS
    /\ \E row \in Rows : Eval(pred, row)
    /\ \E row \in Rows : ~InSpans(KeyOf(row, IndexKeys), result)

\* C2: SargFor never returns more than 256 spans.  When the composed set is
\* empty or has more than 256 elements the result is exactly the single full
\* span, and otherwise the result is the composed set.
C2_SpanCap ==
    (pc = "done") =>
        /\ Len(result) <= MaxSpans
        /\ (Len(ns) = 0 \/ Len(ns) > MaxSpans) => result = <<FULL_SPAN>>
        /\ (Len(ns) > 0 /\ Len(ns) <= MaxSpans) => result = ns

C2_Witness == pc = "done" /\ Len(ns) > MaxSpans /\ result = <<FULL_SPAN>>

IsRangeEq(p, l, h, c) ==
    \/ p = And(<<Between(Fields[1], l, h), Cmp("eq", Fields[2], c)>>)
    \/ p = And(<<Cmp("ge", Fields[1], l), Cmp("le", Fields[1], h), Cmp("eq", Fields[2], c)>>)

RangeEqCall == pc = "done" /\ total = 2 /\ Len(sargKeys) = 2

\* C6 as stated: for an index on two keys and a predicate "first key BETWEEN
\* l AND h AND second key = c", SargFor returns exactly one span with
\* Low = [l, c], High = [h] and Inclusion BOTH.
C6_Original ==
    \A l \in 1..MaxVal, h \in 1..MaxVal, c \in 1..MaxVal :
        (RangeEqCall /\ IsRangeEq(pred, l, h, c)) =>
            result = <<Span(<<l, c>>, <<h>>, BOTH)>>

\* C6 as amended: the one span has Low = [l, c], High = [h, c] and Inclusion
\* BOTH: the equality on the inner key extends both bounds of the composite.
C6_RangeEq ==
    \A l \in 1..MaxVal, h \in 1..MaxVal, c \in 1..MaxVal :
        (RangeEqCall /\ IsRangeEq(pred, l, h, c)) =>
            result = <<Span(<<l, c>>, <<h, c>>, BOTH)>>

C6_Witness ==
    /\ RangeEqCall
    /\ pred = And(<<Cmp("ge", Fields[1], 1), Cmp("le", Fields[1], 2), Cmp("eq", Fields[2], 1)>>)
    /\ ~missingHigh
    /\ Len(result) = 1

\* the last iteration multiplied every span of rs with every span of nsPrev
AllComposed ==
    /\ path = "cross"
    /\ \A p \in 1..Len(rs) : \A q \in 1..Len(nsPrev) :
           /\ ~Unbounded(rs[p]) /\ ~Unbounded(nsPrev[q])
           /\ \/ Len(rs[p].low) > 0 /\ Len(nsPrev[q].low) > 0
              \/ Len(rs[p].high) > 0 /\ Len(nsPrev[q].high) > 0

\* the composite of the p-th span of rs and the q-th span of nsPrev
Composite(p, q) == ns[(p - 1) * Len(nsPrev) + q]

LowBit(s) == s.incl % 2
HighBit(s) == s.incl \div 2

\* C7 as stated: the composite low is prev.low ++ next.low with LOW bit
\* LOW & prev & next when both have a low, and the composite has no low when
\* either side has none; symmetric for high; neither composition changes the
\* other bit.
C7_Original ==
    AllComposed =>
        \A p \in 1..Len(rs) : \A q \in 1..Len(nsPrev) :
            LET prev == rs[p]
                next == nsPrev[q]
                c == Composite(p, q)
            IN  /\ IF Len(prev.low) > 0 /\ Len(next.low) > 0
                   THEN c.low = prev.low \o next.low /\ LowBit(c) = LowBit(prev) * LowBit(next)
                   ELSE c.low = <<>>
                /\ IF Len(prev.high) > 0 /\ Len(next.high) > 0
                   THEN c.high = prev.high \o next.high /\ HighBit(c) = HighBit(prev) * HighBit(next)
                   ELSE c.high = <<>>

\* C7 as amended: when either side has no low the composite keeps the low of
\* prev, not extended, with the LOW bit of prev; symmetric for high.
C7_Compose ==
    AllComposed =>
        \A p \in 1..Len(rs) : \A q \in 1..Len(nsPrev) :
            LET prev == rs[p]
                next == nsPrev[q]
                c == Composite(p, q)
            IN  /\ IF Len(prev.low) > 0 /\ Len(next.low) > 0
                   THEN c.low = prev.low \o next.low /\ LowBit(c) = LowBit(prev) * LowBit(next)
                   ELSE c.low = prev.low /\ LowBit(c) = LowBit(prev)
                /\ IF Len(prev.high) > 0 /\ Len(next.high) > 0
                   THEN c.high = prev.high \o next.high /\ HighBit(c) = HighBit(prev) * HighBit(next)
                   ELSE c.high = prev.high /\ HighBit(c) = HighBit(prev)

C7_Witness ==
    /\ AllComposed
    /\ Len(rs) >= 2
    /\ \E p \in 1..Len(rs) : \E q \in 1..Len(nsPrev) :
          /\ Len(rs[p].low) > 0 /\ Len(rs[p].high) > 0
          /\ Len(nsPrev[q].low) = 0 /\ Len(nsPrev[q].high) > 0
          /\ Composite(p, q).low = rs[p].low
          /\ LowBit(rs[p]) = 1 /\ HighBit(rs[p]) = 1 /\ HighBit(nsPrev[q]) = 0

\* C8: when an iteration begins with more than 16 accumulated spans, the
\* spans of its key are appended as they are, not multiplied: the new
\* accumulated set holds spans of rs only and at most as many.
C8_FanOutCap ==
    (Len(nsPrev) > FanOut /\ Len(rs) > 0) =>
        /\ Len(ns) <= Len(rs)
        /\ \A k \in 1..Len(ns) : \E j \in 1..Len(rs) : ns[k] = rs[j]
        /\ (\A j \in 1..Len(rs) : ~IsFull(rs[j])) => ns = rs

C8_Witness ==
    /\ Len(nsPrev) > FanOut
    /\ Len(rs) >= 2
    /\ path = "capped"
    /\ \A j \in 1..Len(rs) : ~Unbounded(rs[j])
    /\ ns = rs

-----------------------------------------------------------------------------
(* Properties of selectScan *)

\* the IndexScan nodes of an operator (an IntersectScan holds IndexScans and
\* UnionScans of one IndexScan)
IndexScansOf(o) ==
    IF o.kind = "IndexScan" THEN {o}
    ELSE UNION {IF c.kind = "IndexScan" THEN {c} ELSE Range(c.scans) : c \in Range(o.scans)}

ScannedIndexes(o) == {x.index : x \in IndexScansOf(o)}

\* the enumeration has returned without an error
Gathered == ppc \in {"select", "primary", "done"} /\ nodeKeys = NoKeys

\* every hint names an indexer of the keyspace and an index of that indexer
HintsResolve ==
    \A k \in 1..Len(hints) :
        /\ \E u \in 1..Len(Usings) : Usings[u] = hints[k].using
        /\ \E j \in 1..Len(catalog) :
               catalog[j].using = hints[k].using /\ catalog[j].name = hints[k].name

\* the index of the catalog a hint names
Hinted(h) == CHOOSE x \in Range(catalog) : x.using = h.using /\ x.name = h.name

\* C11: only ONLINE indexes are candidates.  With hints and without, an index
\* whose state is not ONLINE or whose State() fails is left out of the
\* candidates, the enumeration does not fail because of it, and no IndexScan
\* of the plan is on such an index.
C11_OnlineOnly ==
    /\ \A x \in indexes \cup Range(hintIndexes) \cup Range(otherIndexes) : x.state = ONLINE
    /\ \A x \in ScannedIndexes(scanOp) : x.state = ONLINE
    /\ (Gathered /\ hints = <<>> /\ fail.call \notin {"Indexers", "Indexes"}) =>
           /\ err \notin {"Indexers", "Indexes", "Indexer", "IndexByName"}
           /\ otherIndexes = SelectSeq(catalog, LAMBDA x : x.state = ONLINE)
    /\ (ppc \in {"select", "primary", "done"} /\ nodeKeys = NoKeys
            /\ hints # <<>> /\ HintsResolve) =>
           /\ err \notin {"Indexers", "Indexes", "Indexer", "IndexByName"}
           /\ hintIndexes = SelectSeq([k \in 1..Len(hints) |-> Hinted(hints[k])],
                                      LAMBDA x : x.state = ONLINE)

C11_Witness ==
    /\ ppc = "done" /\ err = "nil" /\ hints # <<>>
    /\ ScannedIndexes(scanOp) # {}
    /\ \E x \in Range(catalog) : x.state = StateFails /\ sargableIndex(x, where) # NoEntry
    /\ \E x \in Range(catalog) : x.state = OFFLINE /\ sargableIndex(x, where) # NoEntry

\* selectScan took the secondary branch: minimalIndexes returned entries
SecondaryBuilt == ppc = "done" /\ spc = "done" /\ merr = "nil" /\ DOMAIN minimals # {}

\* no cover set, or no surviving index covers it
NoCovering == cover = <<>> \/ \A s \in DOMAIN minimals : ~Covers(minimals[s], cover)

\* o is the plain IndexScan of the surviving index s
IsScanOf(o, s) ==
    /\ o.kind = "IndexScan" /\ o.index = s
    /\ o.spans = minimals[s].spans /\ o.covers = <<>> /\ o.scans = <<>>

\* o is the scan of s, inside a UnionScan exactly when s has several spans
IsEntryScanOf(o, s) ==
    IF Len(minimals[s].spans) > 1
    THEN o.kind = "UnionScan" /\ Len(o.scans) = 1 /\ IsScanOf(o.scans[1], s)
    ELSE IsScanOf(o, s)

\* C12: without a covering index every surviving index gives one IndexScan,
\* inside a UnionScan exactly when it has more than one span; the plan is an
\* IntersectScan of them exactly when more than one index survives and the
\* scan itself when one survives.
C12_ScanTree ==
    (SecondaryBuilt /\ NoCovering) =>
        IF Cardinality(DOMAIN minimals) > 1
        THEN /\ scanOp.kind = "IntersectScan"
             /\ Len(scanOp.scans) = Cardinality(DOMAIN minimals)
             /\ \A s \in DOMAIN minimals :
                    \E k \in 1..Len(scanOp.scans) : IsEntryScanOf(scanOp.scans[k], s)
        ELSE \A s \in DOMAIN minimals : IsEntryScanOf(scanOp, s)

C12_Witness ==
    /\ SecondaryBuilt /\ NoCovering
    /\ scanOp.kind = "IntersectScan"
    /\ \E k \in 1..Len(scanOp.scans) : scanOp.scans[k].kind = "UnionScan"
    /\ \E k \in 1..Len(scanOp.scans) : scanOp.scans[k].kind = "IndexScan"

\* every expression of the cover set is a key of the surviving index s
CoversAll(s) == \A k \in 1..Len(cover) : cover[k] \in Range(minimals[s].keys)

\* C13: with a cover set and a surviving index that covers it, the plan is
\* one IndexScan on a covering index with one cover per key of the index and
\* nothing else; when no surviving index covers the set the plan is the one
\* built without a cover set.
C13_CoveringScan ==
    (SecondaryBuilt /\ cover # <<>>) =>
        IF \E s \in DOMAIN minimals : CoversAll(s)
        THEN /\ scanOp.kind = "IndexScan" /\ scanOp.scans = <<>>
             /\ scanOp.index \in DOMAIN minimals
             /\ CoversAll(scanOp.index)
             /\ scanOp.spans = minimals[scanOp.index].spans
             /\ scanOp.covers = minimals[scanOp.index].keys
        ELSE \E order \in Orders(DOMAIN minimals) :
                 scanOp = buildSecondaryScan(minimals, order, <<>>)

C13_Witness ==
    /\ SecondaryBuilt /\ Len(cover) = 1
    /\ Cardinality(DOMAIN minimals) > 1
    /\ scanOp.kind = "IndexScan" /\ Len(scanOp.covers) = 1 /\ Len(scanOp.spans) > 1
    /\ \E s \in DOMAIN minimals : ~CoversAll(s)

\* selectScan looked for a primary index and has returned
PrimaryLookedUp == ppc = "done" /\ "primary" \in lookups

\* the primaries of a list, in its order
PrimariesOf(ixs) == SelectSeq(ixs, LAMBDA x : x.primary)

\* no call of the catalog fails while the primary index is looked for
CatalogAnswers ==
    /\ fail.call \notin {"Indexers", "PrimaryIndexes"}
    /\ \A x \in Range(PrimariesOf(catalog)) : x.state # StateFails

\* C14: when a PrimaryScan is needed and the catalog answers, the index used
\* is the first primary among the hinted indexes, else the first primary
\* among the other candidates, else the first ONLINE primary of the catalog;
\* a catalog without a primary gives the error "No primary index", one with
\* primaries none of which is ONLINE the error "not online".
C14_PrimaryFallback ==
    (PrimaryLookedUp /\ CatalogAnswers) =>
        IF PrimariesOf(hintIndexes) # <<>>
        THEN err = "nil" /\ scanOp = NewPrimaryScan(PrimariesOf(hintIndexes)[1])
        ELSE IF PrimariesOf(otherIndexes) # <<>>
        THEN err = "nil" /\ scanOp = NewPrimaryScan(PrimariesOf(otherIndexes)[1])
        ELSE IF \E k \in 1..Len(catalog) : catalog[k].primary /\ catalog[k].state = ONLINE
        THEN /\ err = "nil"
             /\ scanOp = NewPrimaryScan(
                    SelectSeq(catalog, LAMBDA x : x.primary /\ x.state = ONLINE)[1])
        ELSE IF PrimariesOf(catalog) = <<>>
        THEN err = "NoPrimary" /\ scanOp = NoOperator
        ELSE err = "NotOnline" /\ scanOp = NoOperator

C14_Witness ==
    /\ PrimaryLookedUp /\ CatalogAnswers
    /\ hints # <<>> /\ PrimariesOf(hintIndexes) = <<>>
    /\ Len(PrimariesOf(catalog)) > 1
    /\ PrimariesOf(catalog)[1].state = OFFLINE
    /\ scanOp.kind = "PrimaryScan" /\ scanOp.index = PrimariesOf(catalog)[2]

\* selectScan has returned an operator for a term without USE KEYS
ScanSelected == ppc = "done" /\ nodeKeys = NoKeys /\ err = "nil"

SecondaryKinds == {"IndexScan", "UnionScan", "IntersectScan"}

\* C15: without USE KEYS the result is a PrimaryScan exactly when there is no
\* predicate or no index is left after sargability and pruning; without a
\* predicate no index is examined or scanned; when an index is left the
\* result is a secondary scan and no primary index is looked for.
C15_PrimaryOrSecondary ==
    /\ ScanSelected =>
           /\ scanOp.kind = "PrimaryScan" <=> (where = NoCond \/ DOMAIN minimals = {})
           /\ scanOp.kind \in SecondaryKinds <=> DOMAIN minimals # {}
    /\ (nodeKeys = NoKeys /\ where = NoCond) =>
           /\ spc = "idle" /\ sargables = <<>> /\ minimals = <<>>
           /\ ScannedIndexes(scanOp) = {}
    /\ (ppc = "done" /\ DOMAIN minimals # {}) =>
           /\ err = "nil" /\ "primary" \notin lookups
           /\ scanOp.kind \in SecondaryKinds

C15_Witness ==
    /\ ScanSelected /\ where = NoCond /\ hints # <<>>
    /\ \E x \in Range(hintIndexes) : ~x.primary
    /\ scanOp.kind = "PrimaryScan" /\ scanOp.index # NilIndex

\* selectScan has returned for a term with USE KEYS
KeyScanSelected == ppc = "done" /\ nodeKeys # NoKeys

\* C16 as stated: with USE KEYS the result is KeyScan(keys), nothing is looked
\* up, and the parallelism hint is the length of a fixed array, 0 for a named
\* or positional parameter and 1 for any other expression; without USE KEYS
\* the hint is 0.
C16_Original ==
    /\ KeyScanSelected =>
           /\ scanOp = NewKeyScan(nodeKeys) /\ err = "nil" /\ lookups = {}
           /\ nodeKeys.kind = "array" => maxParallelism = nodeKeys.n
           /\ nodeKeys.kind \in {"named", "positional"} => maxParallelism = 0
           /\ nodeKeys.kind = "other" => maxParallelism = 1
    /\ (ppc \notin {"start", "idle"} /\ nodeKeys = NoKeys) => maxParallelism = 0

\* C16 as amended: for a fixed array the hint is the length of the array but
\* at least 1 (an empty array gives 1).
C16_KeyScan ==
    /\ KeyScanSelected =>
           /\ scanOp = NewKeyScan(nodeKeys) /\ err = "nil" /\ lookups = {}
           /\ spc = "idle" /\ indexes = {} /\ hintIndexes = <<>> /\ otherIndexes = <<>>
           /\ nodeKeys.kind = "array" =>
                  maxParallelism = (IF nodeKeys.n >= 1 THEN nodeKeys.n ELSE 1)
           /\ nodeKeys.kind \in {"named", "positional"} => maxParallelism = 0
           /\ nodeKeys.kind = "other" => maxParallelism = 1
    /\ (ppc \notin {"start", "idle"} /\ nodeKeys = NoKeys) => maxParallelism = 0

C16_Witness ==
    /\ KeyScanSelected /\ nodeKeys.kind = "array" /\ nodeKeys.n = 0
    /\ maxParallelism = 1
    /\ hints # <<>> /\ where # NoCond /\ Len(catalog) > 1
    /\ scanOp.kind = "KeyScan"

\* C17: minimalIndexes returns either a plan error and no entry, or entries
\* that all have at least one span; when SargFor fails for a candidate that
\* survived pruning the selection fails with the plan error: no operator is
\* returned and no primary index is looked for.
C17_SargFailure ==
    /\ spc = "done" =>
           \/ merr = "PlanError" /\ minimals = <<>>
           \/ merr = "nil" /\ \A s \in DOMAIN minimals : Len(minimals[s].spans) > 0
    /\ (spc = "done" /\ \E s \in DOMAIN sargables : SargForFails(s, fail)) =>
           merr = "PlanError"
    /\ (ppc = "done" /\ merr # "nil") =>
           err = "PlanError" /\ scanOp = NoOperator /\ "primary" \notin lookups

C17_Witness ==
    /\ ppc = "done" /\ spc = "done"
    /\ Cardinality(DOMAIN sargables) > 1
    /\ \E s \in DOMAIN sargables : SargForFails(s, fail)
    /\ \E s \in DOMAIN sargables : ~SargForFails(s, fail)
    /\ err = "PlanError" /\ minimals = <<>>
    /\ \E x \in Range(catalog) : x.primary /\ x.state = ONLINE

\* C24: buildPrimaryIndex returns either a primary index and no error or no
\* index and an error, whichever call of the catalog fails, so selectScan never
\* returns a PrimaryScan without an index.
C24_PrimaryNeverNil ==
    /\ PrimaryLookedUp =>
           LET r == buildPrimaryIndex(catalog, fail, hintIndexes, otherIndexes)
           IN  \/ r.primary # NilIndex /\ r.err = "nil"
               \/ r.primary = NilIndex /\ r.err # "nil"
    /\ (ppc = "done" /\ scanOp.kind = "PrimaryScan") => scanOp.index # NilIndex

-----------------------------------------------------------------------------
(* Properties of IndexConnection *)

\* the connection was marked primary before its k-th call
PrimaryBefore(k) == \E j \in 1..(k - 1) : connCalls[j].call = "SetPrimary"

\* the k-th call is an Error with the scan timeout on a primary connection
TimedOutAt(k) ==
    /\ connCalls[k].call = "Error" /\ connCalls[k].code = INDEX_SCAN_TIMEOUT
    /\ PrimaryBefore(k)

\* the codes of the Error calls from the k-th on that are not timeouts on a
\* primary connection
RECURSIVE ForwardedFrom(_)
ForwardedFrom(k) ==
    IF k > Len(connCalls) THEN <<>>
    ELSE (IF connCalls[k].call = "Error" /\ ~TimedOutAt(k)
          THEN <<connCalls[k].code>> ELSE <<>>) \o ForwardedFrom(k + 1)

\* C18: the context receives, in order, exactly the errors passed to Error
\* that are not a scan timeout on a connection marked primary; the timeout
\* flag is set exactly when such a timeout has been passed; it starts false
\* and no call resets it.
C18_ErrorTimeout ==
    /\ [](/\ ctxErrors = ForwardedFrom(1)
          /\ connTimeout <=> \E k \in 1..Len(connCalls) : TimedOutAt(k)
          /\ connCalls = <<>> => ~connTimeout)
    /\ [][connTimeout => connTimeout']_vars

C18_Witness ==
    /\ connTimeout /\ connPrimary
    /\ Len(connCalls) = MaxCalls
    /\ connCalls[1] = ConnCall("Error", INDEX_SCAN_TIMEOUT)
    /\ connCalls[MaxCalls] = ConnCall("Error", "OTHER")
    /\ ctxErrors = <<INDEX_SCAN_TIMEOUT, "OTHER">>

-----------------------------------------------------------------------------
(* Properties of Scan and ScanEntries *)

\* the consumer has written to the stop channel and reads no more
ConsumerStopped == rpc = "stopped" /\ stopChannel # <<>>

\* the scan has closed the entry channel and returned
ScanTerminated == chanClosed /\ scpc = "done"

\* C19: once the consumer has written to the stop channel and stopped
\* reading, the scan eventually closes the entry channel and terminates.
C19_Cancellation == ConsumerStopped ~> ScanTerminated

\* a step that closes the entry channel
ClosesChannel == ~chanClosed /\ chanClosed'

\* a step that sends an entry on the entry channel
SendsEntry ==
    /\ Len(entryChannel') + Len(received') > Len(entryChannel) + Len(received)

\* C23: every Scan and ScanEntries closes the entry channel exactly once on
\* every return path, early returns included (the scan has returned exactly
\* when the channel is closed, the close is the step that returns, and a
\* closed channel is never reopened), and sends no entry after the close.
C23_CloseOnce ==
    /\ [](scpc = "done" <=> chanClosed)
    /\ [][ClosesChannel => scpc # "done" /\ scpc' = "done"]_vars
    /\ [][chanClosed => chanClosed' /\ scpc' = "done" /\ ~SendsEntry]_vars

C23_Witness ==
    /\ scanImpl = "file.Scan" /\ scanInput.fails
    /\ scanInput.low # BadBound /\ scanInput.high # BadBound
    /\ scpc = "done" /\ chanClosed
    /\ entryChannel = <<>> /\ received = <<>>
    /\ ctxErrors = <<"OTHER">>

-----------------------------------------------------------------------------
(* Properties of the plan serialisation *)

\* the catalog has the keyspace, the indexer and the index of every IndexScan
RECURSIVE Resolves(_, _)
Resolves(st, n) ==
    IF n.kind = "IndexScan"
    THEN /\ <<n.term.namespace, n.term.keyspace>> \in st.keyspaces
         /\ <<n.term.namespace, n.term.keyspace, n.index.using>> \in st.indexers
         /\ n.index \in st.indexes
    ELSE \A k \in 1..Len(n.scans) : Resolves(st, n.scans[k])

\* the same index, spans, distinct flag, limit and covers, and the same
\* child scans in the same order
RECURSIVE SameScan(_, _)
SameScan(n, m) ==
    /\ n.kind = m.kind
    /\ n.index = m.index
    /\ Len(n.spans) = Len(m.spans)
    /\ \A k \in 1..Len(n.spans) :
          /\ n.spans[k].low = m.spans[k].low /\ n.spans[k].high = m.spans[k].high
          /\ n.spans[k].incl = m.spans[k].incl
    /\ n.distinct = m.distinct
    /\ n.limit = m.limit
    /\ n.covers.items = m.covers.items
    /\ Len(n.scans) = Len(m.scans)
    /\ \A k \in 1..Len(n.scans) : SameScan(n.scans[k], m.scans[k])

-----------------------------------------------------------------------------
(* Properties of sargAnd *)

\* SargFor has just visited its rightmost key with an And predicate that
\* gave spans for it
AndVisited ==
    /\ pc = "loop" /\ path # "" /\ i = Len(sargKeys) - 1
    /\ pred.kind = "and" /\ Len(rs) > 0

\* the spans of the k-th operand for the key just visited
OperandSpans(k) == sargFor(pred.ops[k], sargKeys[i + 1], Len(sargKeys) < total)

\* the value is admitted by every operand that gave spans for the key
InEveryOperand(v) ==
    \A k \in 1..Len(pred.ops) :
        Len(OperandSpans(k)) = 0 \/ InSpans(<<v>>, OperandSpans(k))

\* C21: the spans sargAnd emits for a key admit exactly the values admitted
\* by the spans of every operand that is sargable on that key, whatever the
\* number of spans of each operand; operands without spans are skipped.
C21_AndIntersection ==
    AndVisited => \A v \in RowVals : InSpans(<<v>>, rs) <=> InEveryOperand(v)

-----------------------------------------------------------------------------
(* Properties of the missing-high flag *)

\* SargFor has visited a key that is not the leftmost: rs are its spans,
\* nsPrev the composites of the keys to its right
InnerKeyVisited == pc = "loop" /\ i >= 1 /\ i < Len(sargKeys)

\* C22: the rightmost sarg key sees the flag n < total; the key to the left
\* of a visited key sees the flag true exactly when all composites so far
\* carried a low and the visited key produced a span with no high bound.
C22_MissingHigh ==
    /\ (pc = "loop" /\ i = Len(sargKeys)) => (missingHigh <=> Len(sargKeys) < total)
    /\ InnerKeyVisited =>
          (missingHigh <=>
              /\ \A j \in 1..Len(nsPrev) : Len(nsPrev[j].low) > 0
              /\ \E j \in 1..Len(rs) : Len(rs[j].high) = 0)

-----------------------------------------------------------------------------
(* Properties of a key without spans inside the sarg prefix *)

\* the keys of the prefix for which the predicate yields no span
EmptyKeys == {k \in 1..Len(sargKeys) : Len(sargFor(pred, sargKeys[k], FALSE)) = 0}

\* the leftmost of them
FirstEmptyKey == CHOOSE k \in EmptyKeys : \A j \in EmptyKeys : k <= j

\* the spans the keys 1..n alone compose to, the first visited as a first
\* iteration, the flag seen by the n-th being mh
RECURSIVE LeftSpans(_, _, _)
LeftSpans(n, acc, mh) ==
    IF n = 0 THEN acc
    ELSE LET r == sargFor(pred, sargKeys[n], mh)
             mh2 == \E j \in 1..Len(r) : Len(r[j].high) = 0
         IN  LeftSpans(n - 1, IF acc = <<>> THEN r ELSE CrossProduct(r, acc, 1),
                       IF n > 1 THEN mh2 ELSE mh)

\* C27: a key of the prefix that yields no span discards every span
\* accumulated from the keys to its right; the result is composed from the
\* keys to the left of the leftmost such key only, and is the full span when
\* there is none.
C27_EmptyRestart ==
    /\ (pc = "loop" /\ path = "empty") => ns = <<>>
    /\ (pc = "done" /\ EmptyKeys # {}) =>
          \E mh \in BOOLEAN :
              LET left == LeftSpans(FirstEmptyKey - 1, <<>>, mh)
              IN  result = IF left = <<>> \/ Len(left) > MaxSpans THEN <<FULL_SPAN>>
                           ELSE left

C27_Witness ==
    /\ pc = "done" /\ Len(sargKeys) = 3
    /\ EmptyKeys = {2}
    /\ result # <<FULL_SPAN>>
    /\ Len(result) > 1

-----------------------------------------------------------------------------
(* Properties of constrainSpan *)

HasLow(s) == Len(s.low) > 0
HasHigh(s) == Len(s.high) > 0

\* C4: after constrainSpan(s1, s2), when both spans had a high bound, s1's
\* high is the lower of the two and its HIGH bit is that of the span the kept
\* high came from; when only s2 had a high, s1 has s2's high and HIGH bit.
C4_ConstrainHigh ==
    (cpc = "done") =>
        /\ (HasHigh(span1In) /\ HasHigh(span2)) =>
              LET h1 == span1In.high[1]
                  h2 == span2.high[1]
              IN  /\ span1.high = <<IF Collate(h1, h2) <= 0 THEN h1 ELSE h2>>
                  /\ Collate(h1, h2) < 0 => HighBit(span1) = HighBit(span1In)
                  /\ Collate(h1, h2) > 0 => HighBit(span1) = HighBit(span2)
                  /\ Collate(h1, h2) = 0 => HighBit(span1) \in {HighBit(span1In), HighBit(span2)}
        /\ (~HasHigh(span1In) /\ HasHigh(span2)) =>
              span1.high = span2.high /\ HighBit(span1) = HighBit(span2)

\* C5: after constrainSpan(s1, s2), s1's low is the higher of the two lows
\* (s2's low when s1 had none) and its LOW bit is that of the tighter side;
\* of two equal lows the exclusive one wins.
C5_ConstrainLow ==
    (cpc = "done") =>
        /\ (HasLow(span1In) /\ HasLow(span2)) =>
              LET l1 == span1In.low[1]
                  l2 == span2.low[1]
              IN  /\ span1.low = <<IF Collate(l1, l2) >= 0 THEN l1 ELSE l2>>
                  /\ Collate(l1, l2) > 0 => LowBit(span1) = LowBit(span1In)
                  /\ Collate(l1, l2) < 0 => LowBit(span1) = LowBit(span2)
                  /\ Collate(l1, l2) = 0 => LowBit(span1) = LowBit(span1In) * LowBit(span2)
        /\ (~HasLow(span1In) /\ HasLow(span2)) =>
              span1.low = span2.low /\ LowBit(span1) = LowBit(span2)

-----------------------------------------------------------------------------
(* Properties of the index selection *)

\* s is narrower than or equivalent to t
Narrower(se, te) ==
    /\ Len(se.sargKeys) >= Len(te.sargKeys)
    /\ te.cond # NoCond => (se.cond # NoCond /\ SubsetOf(se.cond, te.cond))
    /\ \A k \in 1..Len(te.sargKeys) : \E j \in 1..Len(se.sargKeys) :
           SubsetOf(se.sargKeys[j], te.sargKeys[k])
    /\ Len(se.sargKeys) = Len(te.sargKeys) => Len(se.keys) <= Len(te.keys)

Pruned == spc = "done" \/ (spc = "prune" /\ DOMAIN sargables \subseteq visited)

\* C9: once the pruning loop of minimalIndexes has ended, in whatever order
\* the map was iterated, no surviving candidate is narrower than or
\* equivalent to another surviving candidate.
C9_Minimal ==
    Pruned =>
        /\ \A s \in DOMAIN sargables : \A t \in DOMAIN sargables :
               s # t => ~Narrower(sargables[s], sargables[t])
        /\ spc = "done" =>
               \A s \in DOMAIN minimals : \A t \in DOMAIN minimals :
                   s # t => ~Narrower(minimals[s], minimals[t])

C9_Witness ==
    /\ spc = "done"
    /\ Cardinality(DOMAIN minimals) >= 2
    /\ \E index \in indexes : sargableIndex(index, where) # NoEntry /\ index \notin DOMAIN minimals

\* C10: an index with a condition is among the sargable candidates, and
\* among the candidates minimalIndexes returns, only if the predicate implies
\* the condition; an index whose condition is not implied is not a candidate
\* even if its keys are sargable.
C10_PartialIndex ==
    /\ \A index \in DOMAIN sargables :
           index.cond # NoCond => SubsetOf(where, index.cond)
    /\ \A index \in DOMAIN minimals :
           index.cond # NoCond => SubsetOf(where, index.cond)

C10_Witness ==
    /\ spc = "done"
    /\ \E index \in indexes :
          /\ index.cond # NoCond /\ ~SubsetOf(where, index.cond)
          /\ SargableFor(where, index.keys) > 0
          /\ index \notin DOMAIN sargables
    /\ \E index \in DOMAIN minimals : index.cond # NoCond

-----------------------------------------------------------------------------
(* Properties of the pruning loop over the candidate map *)

\* the indexes sargableIndexes stores an entry for
Candidates == {index \in indexes : sargableIndex(index, where) # NoEntry}

\* each of the two candidates is narrower than or equivalent to the other
Mutual(s, t) ==
    /\ s # t
    /\ Narrower(sargableIndex(s, where), sargableIndex(t, where))
    /\ Narrower(sargableIndex(t, where), sargableIndex(s, where))

\* no third candidate is narrower than or equivalent to s or to t
Undominated(s, t) ==
    \A u \in Candidates \ {s, t} :
        /\ ~Narrower(sargableIndex(u, where), sargableIndex(s, where))
        /\ ~Narrower(sargableIndex(u, where), sargableIndex(t, where))

CandidateMap == [s \in Candidates |-> sargableIndex(s, where)]

\* the pruning loop run in one fixed order of the map
RECURSIVE PruneFixed(_, _)
PruneFixed(m, seen) ==
    IF DOMAIN m \subseteq seen THEN m
    ELSE LET s == CHOOSE x \in DOMAIN m \ seen : TRUE
         IN  PruneFixed([t \in {u \in DOMAIN m : u = s \/ ~Narrower(m[s], m[u])} |-> m[t]],
                        seen \cup {s})

\* C26: for a fixed predicate and a fixed set of candidate indexes the set of
\* indexes that survive pruning is the same for every iteration order of the
\* candidate map: every run ends with the survivors of one fixed order.
C26_PlanDeterminism ==
    /\ Pruned => DOMAIN sargables = DOMAIN PruneFixed(CandidateMap, {})
    /\ (spc = "done" /\ merr = "nil") => DOMAIN minimals = DOMAIN PruneFixed(CandidateMap, {})

-----------------------------------------------------------------------------
(* Properties of the file keyspace *)

\* the operation takes the pair: the key can be written and is absent for
\* INSERT, present for UPDATE
Accepted(o, fs, key) ==
    /\ key \notin ioFails
    /\ o = INSERT => fs[key] = NoFile
    /\ o = UPDATE => fs[key] # NoFile

\* the directory and the pairs written when the batch is applied pair by
\* pair, from the k-th pair on
RECURSIVE Applied(_, _, _, _, _)
Applied(o, pairs, k, fs, acc) ==
    IF k > Len(pairs) THEN [files |-> fs, written |-> acc]
    ELSE IF Accepted(o, fs, pairs[k].key)
         THEN Applied(o, pairs, k + 1, [fs EXCEPT ![pairs[k].key] = <<pairs[k].value>>],
                      Append(acc, pairs[k]))
         ELSE Applied(o, pairs, k + 1, fs, acc)

\* the batch of the caller applied to the directory the caller found
AppliedBy(c) == Applied(fileOp[c], kvPairs[c], 1, filesAtLock[c], <<>>)

LoopEnded(c) == fpc[c] = "loop" /\ fpos[c] > Len(kvPairs[c])

InLoop == {c \in Callers : fpc[c] \in {"loop", "statted"}}

\* the caller reports the key as written
Reports(c, key) == \E k \in 1..Len(insertedKeys[c]) : insertedKeys[c][k].key = key

\* both callers insert the key, and the first to take the lock found it absent
BothInsert(key) ==
    /\ \A c \in Callers :
          /\ fpc[c] = "done" /\ fileOp[c] = INSERT
          /\ \E k \in 1..Len(kvPairs[c]) : kvPairs[c][k].key = key
    /\ \E c \in Callers : filesAtLock[c][key] = NoFile
    /\ key \notin ioFails

\* C29: the batches of one keyspace never interleave: at most one caller is
\* inside the loop of performOp, and it holds the lock; when two Insert
\* batches contain the same absent key exactly one of them reports it as
\* inserted and the stored document is the value of that batch.
C29_MutualExclusion ==
    /\ Cardinality(InLoop) <= 1
    /\ \A c \in InLoop : fileLock = c
    /\ \A key \in FileKeys :
          BothInsert(key) =>
              \E c \in Callers :
                  /\ Reports(c, key)
                  /\ \A d \in Callers \ {c} : ~Reports(d, key)
                  /\ \E k \in 1..Len(insertedKeys[c]) :
                        /\ insertedKeys[c][k].key = key
                        /\ files[key] = jsonMarshal(insertedKeys[c][k].value)

C29_Witness ==
    /\ BothInsert("k1")
    /\ Reports("B", "k1") /\ ~Reports("A", "k1")
    /\ files["k1"] = jsonMarshal(ValueOf("B", 1))
    /\ returnErr["A"] > 0 /\ returnErr["B"] = 0

-----------------------------------------------------------------------------
(* Properties of the slice pool *)

\* the holders of a backing array: the operators whose values use it, the
\* returned values in use that hold elements of it, the slices of it in the
\* pool
Owners(id) ==
    Cardinality({c \in Collects : values[c].arr = id})
        + Cardinality({c \in Collects : returned[c].arr = id /\ returned[c].len > 0})
        + Cardinality({k \in 1..Len(pooled) : pooled[k] = id})

\* the returned value still holds what it held when ValuesOnce returned
Intact(c) ==
    returned[c].arr # 0 =>
        SubSeq(arrays[returned[c].arr], 1, returned[c].len) = returned[c].snap

\* C30: a backing array of the pool has at most one owner at a time; a value
\* ValuesOnce has returned is not in the pool, is not handed to another
\* Collect and is not overwritten while it is in use; Put recycles only
\* slices of the pool's capacity and Get returns a slice of length 0.
C30_ExclusiveOwnership ==
    /\ \A id \in 1..Len(arrays) : Owners(id) <= 1
    /\ \A c \in Collects : Intact(c)
    /\ \A k \in 1..Len(pooled) : Len(arrays[pooled[k]]) = CollectCap
    /\ lastGet.len = 0

=============================================================================
